---- MODULE Spec2Model ----
(***************************************************************************)
(* Project-Astral long-term memory engine (src/bot/memory/rag.py and       *)
(* src/bot/memory/embeddings.py): the knowledge table, the BM25 keyword    *)
(* index kept in module globals, the store_* writers, the hybrid           *)
(* retriever and the context formatter.                                    *)
(*                                                                         *)
(* Texts are sequences of tokens: a token is a word (no whitespace in it)  *)
(* or one whitespace character (" " or "\n").  Scores that the code holds  *)
(* as floats are held exactly: a cosine is the pair <<d, n2>> standing for *)
(* d / sqrt(n2), a BM25 score is an integer in micro units.                *)
(***************************************************************************)
EXTENDS Integers, Sequences, FiniteSets, TLC

VARIABLES
    knowledge,      \* rows of the knowledge table, in rowid order
    BM25_INDEX,     \* <<>> for None, or the BM25Okapi object <<tokenized corpus>>
    BM25_CORPUS,    \* contents the index was built from
    BM25_IDS,       \* ids the index was built from
    CROSS_ENCODER,  \* None, or the re-ranker model _init_search_models loaded
    search_knowledge, \* ids of the rows of the search_knowledge table
    last,           \* the last completed public call: its inputs and its result
    pending,        \* the public call that is waiting on an external service
    memory_file,    \* shared_memory.json as SharedMemoryManager finds it
    appended,       \* every message appended to the shared history, in order
    save_failed,    \* whether a write of shared_memory.json has failed
    workers,        \* the asyncio.to_thread workers of store_knowledge, each at its statement
    reader,         \* the keyword block of a retrieval, with the index parts it has read
    ready,          \* the event loop's queue of callbacks that can run, oldest first
    is_summarizing, \* ChatCog.is_summarizing
    msgs_since_summary, \* ChatCog.msgs_since_summary
    summary_cache,  \* ChatCog.summary_cache
    summaries,      \* the _update_summary tasks, each at its await
    voice_queues,   \* VoiceHandler.voice_queues[guild]: the clips waiting to be played
    currently_playing, \* VoiceHandler.currently_playing[guild]
    voice_client,   \* guild.voice_client: connected or not, the clip it plays, a leave in flight
    processors,     \* the _process_queue tasks, each at its await
    speaking,       \* the speak_text calls awaiting generate_tts
    queued,         \* every clip appended to the queue, in order
    played          \* every clip voice_client.play accepted, in order

vars == <<knowledge, BM25_INDEX, BM25_CORPUS, BM25_IDS, CROSS_ENCODER, search_knowledge, last,
          pending, memory_file, appended, save_failed, workers, reader,
          ready, is_summarizing, msgs_since_summary, summary_cache, summaries,
          voice_queues, currently_playing, voice_client, processors, speaking, queued, played>>

ragVars    == <<knowledge, BM25_INDEX, BM25_CORPUS, BM25_IDS, CROSS_ENCODER, search_knowledge>>
sharedVars == <<memory_file, appended, save_failed>>
threadVars == <<workers, reader>>
chatVars   == <<is_summarizing, msgs_since_summary, summary_cache, summaries>>
voiceVars  == <<voice_queues, currently_playing, voice_client, processors, speaking, queued, played>>
loopVars   == <<ready, chatVars, voiceVars>>
otherVars  == <<threadVars, loopVars>>

\* Python's None: where a string is expected, and where a list or tuple is
None == "None"
Null == <<"None">>
NoIndex == <<>>

(***************************************************************************)
(* Bounds of the model.                                                    *)
(***************************************************************************)
MaxItems == 3       \* rows the knowledge table may hold
MaxList  == 2       \* items in a list handed to the formatter

(***************************************************************************)
(* Texts.                                                                  *)
(***************************************************************************)
IsSpace(tok) == tok \in {" ", "\n", "\t"}

\* str.lower() on one word
LowerWord(w) ==
    CASE w = "Bot"    -> "bot"
      [] w = "Search" -> "search"
      [] w = "I"      -> "i"
      [] OTHER        -> w

\* doc.lower().split(): the words of a text, case-folded, whitespace dropped
RECURSIVE LowerSplit(_)
LowerSplit(text) ==
    IF text = <<>> THEN <<>>
    ELSE IF IsSpace(Head(text)) THEN LowerSplit(Tail(text))
    ELSE <<LowerWord(Head(text))>> \o LowerSplit(Tail(text))

RECURSIVE CharLen(_)
CharLen(text) == IF text = <<>> THEN 0 ELSE Len(Head(text)) + CharLen(Tail(text))

\* str.strip(): leading and trailing whitespace tokens are dropped
RECURSIVE LStrip(_)
LStrip(text) ==
    IF text # <<>> /\ IsSpace(Head(text)) THEN LStrip(Tail(text)) ELSE text

RECURSIVE RStrip(_)
RStrip(text) ==
    IF text # <<>> /\ IsSpace(text[Len(text)]) THEN RStrip(SubSeq(text, 1, Len(text) - 1)) ELSE text

Strip(text) == RStrip(LStrip(text))

\* the facts the extractor may produce, and what the other producers store
FactA   == <<"builds", " ", "bot">>
FactB   == <<"develops", " ", "Bot">>
Know1   == <<"cat", " ", "food">>
Search1 == <<"Search", " ", "bot", "\n", "Result">>
Draw1   == <<"I", " ", "drew", "\n", "cat">>

Facts    == {FactA, FactB}

\* what a user says and what the agent answers
MsgHey    == <<"hey">>
MsgLol    == <<"lol">>
MsgK      == <<"k">>
MsgWork   == <<"I", " ", "am", " ", "building", " ", "a", " ", "bot">>
RespShort == <<"hi", " ", "there">>
RespLong  == <<"hello", " ", "there,", " ", "always", " ", "wonderful", " ", "to", " ", "see", " ",
               "you", " ", "around", " ", "again", " ", "today">>
Greetings == {MsgHey, MsgLol, MsgK}

\* what the extractor LLM may answer
AnswerNone       == <<"none", "\n">>
AnswerFactA      == FactA
AnswerFactB      == <<" ">> \o FactB \o <<"\n">>
AnswerThinkNone  == <<"<think>", "nothing", " ", "here", "</think>", "\n", "NONE">>
AnswerThinkFactA == <<"<think>", "a", " ", "builder", "</think>", " ">> \o FactA
Contents == {FactA, FactB, Know1, Search1, Draw1}

\* the queries a caller passes, and the rewrite the normalizer LLM may give
QueryEmpty == <<>>
QueryBot   == <<"what", " ", "bot">>
RewriteBot == <<"bot">>
RewriteLong == <<"what", " ", "is", " ", "a", " ", "discord", " ", "bot">>
RewriteCat == <<"cat">>
RewriteBuilds == <<"builds">>
Queries  == {QueryEmpty, QueryBot}

(***************************************************************************)
(* Embedding provider (embeddings.py).  The provider is a fixed function   *)
(* of the text; whether a call fails is decided per call.                  *)
(***************************************************************************)
DocVector(text) ==
    CASE text = FactA   -> <<1, 0>>
      [] text = FactB   -> <<9, 4>>
      [] text = Know1   -> <<0, 1>>
      [] text = Search1 -> <<3, 4>>
      [] OTHER          -> <<0, 1>>

QueryVector(text) ==
    CASE text = RewriteBot    -> <<9, 4>>
      [] text = RewriteBuilds -> <<0, 1>>
      [] OTHER                -> <<1, 0>>

\* get_embedding: None without a key or on any provider error
get_embedding(text, ok) == IF ok THEN DocVector(text) ELSE Null

\* get_query_embedding: None without a key or on any provider error
get_query_embedding(text, ok) == IF ok THEN QueryVector(text) ELSE Null

(***************************************************************************)
(* Cosine similarity, exactly: <<d, n2>> stands for d / sqrt(n2).          *)
(***************************************************************************)
Dot(a, b) == a[1] * b[1] + a[2] * b[2]

\* np.dot(a, b) / (norm(a) * norm(b)); a zero norm gives nan
_cosine_similarity(a, b) == <<Dot(a, b), Dot(a, a) * Dot(b, b)>>

IsNan(s) == s[2] = 0

\* a percentage p as a score: p / 100
Pct(p) == <<p, 10000>>

\* s >= t on floats; every comparison with nan is False
ScoreGE(s, t) ==
    IF IsNan(s) \/ IsNan(t) THEN FALSE
    ELSE IF s[1] >= 0 /\ t[1] >= 0 THEN s[1] * s[1] * t[2] >= t[1] * t[1] * s[2]
    ELSE IF s[1] >= 0 THEN TRUE
    ELSE IF t[1] >= 0 THEN FALSE
    ELSE s[1] * s[1] * t[2] <= t[1] * t[1] * s[2]

ScoreGT(s, t) == ScoreGE(s, t) /\ ~ScoreGE(t, s)

(***************************************************************************)
(* The knowledge table (_init_db) and its rows.                            *)
(***************************************************************************)
KnowledgeColumns ==
    {"id", "content", "embedding", "knowledge_type", "source", "metadata", "created_at"}

Row(id, content, embedding, ktype, source, metadata) ==
    [id |-> id, content |-> content, embedding |-> embedding,
     knowledge_type |-> ktype, source |-> source, metadata |-> metadata]

Ids(rows) == {rows[i].id : i \in 1..Len(rows)}

RowOf(rows, id) == rows[CHOOSE i \in 1..Len(rows) : rows[i].id = id]

\* a plain INSERT that ignores the primary key
InsertAlways(rows, row) == Append(rows, row)

\* INSERT OR REPLACE: a row with the same primary key is deleted, the new
\* row gets a fresh rowid and so comes last in a table scan
InsertOrReplace(rows, row) ==
    Append(SelectSeq(rows, LAMBDA r : r.id # row.id), row)

(***************************************************************************)
(* BM25Okapi (rank_bm25), in integer arithmetic.                           *)
(***************************************************************************)
\* 10^6 * ln(n) for the odd n that occur: ln(2N - 2n + 1) - ln(2n + 1) is
\* ln(N - n + 0.5) - ln(n + 0.5).  Composite entries are the sums of their
\* prime factors' entries, so a sum of these is 0 exactly when the real is.
LnMicro(n) ==
    CASE n = 1  -> 0
      [] n = 3  -> 1098612
      [] n = 5  -> 1609438
      [] n = 7  -> 1945910
      [] n = 9  -> 2197224
      [] n = 11 -> 2397895
      [] n = 13 -> 2564949
      [] n = 15 -> 2708050

RECURSIVE SumSeq(_)
SumSeq(s) == IF s = <<>> THEN 0 ELSE Head(s) + SumSeq(Tail(s))

Count(doc, w) == Len(SelectSeq(doc, LAMBDA x : x = w))

Vocabulary(corpus) == UNION {{corpus[i][j] : j \in 1..Len(corpus[i])} : i \in 1..Len(corpus)}

DocFreq(corpus, w) == Cardinality({i \in 1..Len(corpus) : Count(corpus[i], w) > 0})

RawIdf(corpus, w) ==
    LET N == Len(corpus)
        n == DocFreq(corpus, w)
    IN  LnMicro(2 * (N - n) + 1) - LnMicro(2 * n + 1)

\* idf_sum over the words W
RECURSIVE IdfSum(_, _)
IdfSum(corpus, W) ==
    IF W = {} THEN 0
    ELSE LET x == CHOOSE y \in W : TRUE IN RawIdf(corpus, x) + IdfSum(corpus, W \ {x})

\* truncating division, as float division scaled back to micro units
DivT(a, b) == IF a >= 0 THEN a \div b ELSE -((-a) \div b)

\* _calc_idf: a negative idf is replaced by epsilon * average_idf
Idf(corpus, w) ==
    IF w \notin Vocabulary(corpus) THEN 0
    ELSE LET raw == RawIdf(corpus, w)
             V   == Vocabulary(corpus)
             avg == DivT(IdfSum(corpus, V), Cardinality(V))
         IN  IF raw < 0 THEN DivT(avg, 4) ELSE raw

\* one query token's contribution to document i, idf being the token's idf:
\* idf * f * (k1 + 1) / (f + k1 * (1 - b + b * dl / avgdl)), k1 = 1.5, b = 0.75
TermScore(corpus, i, q, idf, total) ==
    LET f  == Count(corpus[i], q)
        N  == Len(corpus)
        dl == Len(corpus[i])
    IN  IF f = 0 THEN 0
        ELSE DivT(idf * 20 * f * total, 8 * f * total + 3 * total + 9 * dl * N)

\* BM25Okapi.get_scores: one score per document of the corpus
get_scores(index, query) ==
    LET corpus == index[1]
        total  == SumSeq([k \in 1..Len(corpus) |-> Len(corpus[k])])
        idfs   == [k \in 1..Len(query) |-> Idf(corpus, query[k])]
    IN  [i \in 1..Len(corpus) |->
            SumSeq([k \in 1..Len(query) |-> TermScore(corpus, i, query[k], idfs[k], total)])]

\* BM25Okapi(tokenized_corpus) raises ZeroDivisionError when no document
\* holds a word (avgdl and the vocabulary are empty)
BM25OkapiRaises(tokenized) == Vocabulary(tokenized) = {}

\* _rebuild_bm25_index: <<BM25_INDEX, BM25_CORPUS, BM25_IDS>> after the call;
\* an empty table returns early, a raising BM25Okapi leaves the old index
\* beside the new lists
_rebuild_bm25_index(rows, idx, corpus, ids) ==
    IF rows = <<>> THEN <<idx, corpus, ids>>
    ELSE LET newIds    == [i \in 1..Len(rows) |-> rows[i].id]
             newCorpus == [i \in 1..Len(rows) |-> rows[i].content]
             tokenized == [i \in 1..Len(rows) |-> LowerSplit(newCorpus[i])]
         IN  IF BM25OkapiRaises(tokenized) THEN <<idx, newCorpus, newIds>>
             ELSE <<<<tokenized>>, newCorpus, newIds>>

(***************************************************************************)
(* Writers.  Each operator gives the outcome of one call: the id it        *)
(* returns, the table after it, and whether _rebuild_bm25_index ran.       *)
(***************************************************************************)
Outcome(id, rows, rebuilt) == [id |-> id, rows |-> rows, rebuilt |-> rebuilt]

\* f"know_{md5(content)[:12]}_{int(now)}": the hash is taken as injective
KnowledgeId(prefix, content, ts) == <<prefix, content, ts>>

\* json.dumps(metadata or {}) as the formatter and the LIKE filter read it
Meta(username, user_id) == [username |-> username, user_id |-> user_id]
NoMeta == Meta(None, None)

\* store_knowledge with the rebuild run whether or not the write committed
store_knowledge_rebuild_always(rows, content, ktype, source, metadata, ts, embOk, writeOk) ==
    LET embedding == get_embedding(content, embOk)
        id        == KnowledgeId("know", content, ts)
    IN  IF embedding = Null THEN Outcome(Null, rows, FALSE)
        ELSE IF ~writeOk THEN Outcome(Null, rows, TRUE)
        ELSE Outcome(id, InsertOrReplace(rows, Row(id, content, embedding, ktype, source, metadata)), TRUE)

\* store_knowledge: no embedding, or a failed write, returns None before
\* anything is committed; the rebuild follows the commit inside _do_write
store_knowledge(rows, content, ktype, source, metadata, ts, embOk, writeOk) ==
    LET embedding == get_embedding(content, embOk)
        id        == KnowledgeId("know", content, ts)
    IN  IF embedding = Null THEN Outcome(Null, rows, FALSE)
        ELSE IF ~writeOk THEN Outcome(Null, rows, FALSE)
        ELSE Outcome(id, InsertOrReplace(rows, Row(id, content, embedding, ktype, source, metadata)), TRUE)

\* the columns the duplicate query names
DuplicateQueryColumns == {"content", "embedding", "knowledge_type", "metadata", "is_active"}

\* metadata LIKE '%"user_id": "<user_id>"%' on the stored JSON text
LikeUserId(metadata, user_id) ==
    /\ metadata.user_id # None
    /\ metadata.user_id = user_id

\* _is_duplicate_fact: False when the candidate cannot be embedded and
\* False when the query raises (sqlite3.OperationalError is caught)
_is_duplicate_fact(rows, new_fact, user_id, embOk, similarity_threshold) ==
    LET new_embedding == get_embedding(new_fact, embOk)
    IN  IF new_embedding = Null THEN FALSE
        ELSE IF ~(DuplicateQueryColumns \subseteq KnowledgeColumns) THEN FALSE
        ELSE \E i \in 1..Len(rows) :
                /\ rows[i].knowledge_type = "user_fact"
                /\ LikeUserId(rows[i].metadata, user_id)
                /\ rows[i].embedding # <<>>
                /\ ScoreGE(_cosine_similarity(new_embedding, rows[i].embedding),
                           Pct(similarity_threshold))

SimilarityThreshold == 90

\* what an LLM call gave: kind "text" with the response text, or the way
\* the call failed ("no_key": GEMINI_API_KEY unset, "raised": the request
\* raised, "no_text": response.text raised)
LLMReply(kind, text) == [kind |-> kind, text |-> text]
LLMFailures == {LLMReply(k, <<>>) : k \in {"no_key", "raised", "no_text"}}

\* str.upper() on one word
UpperWord(w) ==
    CASE w = "none" -> "NONE"
      [] w = "bot"  -> "BOT"
      [] OTHER      -> w

UpperText(text) == [i \in 1..Len(text) |-> UpperWord(text[i])]

\* the characters of a text, whatever the tokens they came in: a tag that
\* arrives in two pieces is the tag
RECURSIVE Glue(_)
Glue(text) ==
    IF Len(text) < 2 THEN text
    ELSE IF text[1] = "<thi" /\ text[2] = "nk>"
         THEN <<"<think>">> \o Glue(SubSeq(text, 3, Len(text)))
         ELSE <<Head(text)>> \o Glue(Tail(text))

\* one left-to-right pass of the pattern <think>.*?</think>\s*: every span
\* from a "<think>" to the next "</think>" goes, with the whitespace that
\* follows it; a "<think>" that is never closed stays
RECURSIVE RemoveSpans(_)
RemoveSpans(text) ==
    IF text = <<>> THEN <<>>
    ELSE IF Head(text) = "<think>" /\ \E k \in 2..Len(text) : text[k] = "</think>"
         THEN LET k == CHOOSE n \in 2..Len(text) :
                          text[n] = "</think>" /\ \A m \in 2..(n - 1) : text[m] # "</think>"
              IN  RemoveSpans(LStrip(SubSeq(text, k + 1, Len(text))))
         ELSE <<Head(text)>> \o RemoveSpans(Tail(text))

\* re.sub(r'<think>.*?</think>\s*', '', result, flags=re.DOTALL): the
\* matches are found in the text as it is, what is left is not scanned again
RemoveThink(text) == RemoveSpans(Glue(text))

NoFactWord == <<"NONE">>
MinFactLen == 10

\* the extractor with a failed call answered by a fact instead of None
extract_without_guard(reply) ==
    IF reply.kind # "text" THEN <<"builds", " ", "bot">>
    ELSE LET result == Strip(reply.text)
         IN  IF result = <<>> \/ UpperText(result) = NoFactWord \/ CharLen(result) < MinFactLen THEN Null
             ELSE LET cleaned == Strip(RemoveThink(result))
                  IN  IF UpperText(cleaned) = NoFactWord \/ CharLen(cleaned) < MinFactLen THEN Null
                      ELSE cleaned

\* _extract_fact_from_conversation: the prompt carries the exchange to the
\* LLM and reply is what came back; no key and every exception give None
_extract_fact_from_conversation(reply) ==
    IF reply.kind # "text" THEN Null
    ELSE LET result == Strip(reply.text)
         IN  IF result = <<>> \/ UpperText(result) = NoFactWord \/ CharLen(result) < MinFactLen THEN Null
             ELSE LET cleaned == Strip(RemoveThink(result))
                  IN  IF UpperText(cleaned) = NoFactWord \/ CharLen(cleaned) < MinFactLen THEN Null
                      ELSE cleaned

\* store_conversation from the extracted fact on (None for "no fact")
StoreFact(rows, fact, user_id, username, ts, dupEmbOk, embOk, writeOk) ==
    LET name == IF username = None THEN "User" ELSE username
    IN  IF fact = Null THEN Outcome(Null, rows, FALSE)
        ELSE IF _is_duplicate_fact(rows, fact, user_id, dupEmbOk, SimilarityThreshold)
             THEN Outcome(Null, rows, FALSE)
        ELSE store_knowledge(rows, fact, "user_fact", <<"conversation", name>>,
                             Meta(name, user_id), ts, embOk, writeOk)

ShortMessage == 15
ShortResponse == 50

\* the pre-filter left out: every exchange goes to the extractor
SkipsNothing(user_message, gemgem_response) == FALSE

\* the length pre-filter: both sides of the exchange are short
SkipsShortExchange(user_message, gemgem_response) ==
    CharLen(Strip(user_message)) < ShortMessage /\ CharLen(Strip(gemgem_response)) < ShortResponse

\* the fact store_conversation goes on with: None when the exchange is
\* skipped, else what the extractor returns
ExtractedFact(user_message, gemgem_response, reply) ==
    IF SkipsShortExchange(user_message, gemgem_response) THEN Null
    ELSE _extract_fact_from_conversation(reply)

\* store_conversation: reply is the extractor LLM's answer
store_conversation(rows, user_message, gemgem_response, reply, user_id, username, ts, dupEmbOk, embOk, writeOk) ==
    StoreFact(rows, ExtractedFact(user_message, gemgem_response, reply),
              user_id, username, ts, dupEmbOk, embOk, writeOk)

\* store_drawing_knowledge: a plain INSERT (a taken id raises IntegrityError),
\* "[]" stored when the embedding failed, and no rebuild of the index
store_drawing_knowledge(rows, content, user_id, ts, embOk, writeOk) ==
    LET embedding == get_embedding(content, embOk)
        id        == KnowledgeId("draw", content, ts)
        stored    == IF embedding = Null THEN <<>> ELSE embedding
    IN  IF ~writeOk \/ id \in Ids(rows) THEN Outcome(Null, rows, FALSE)
        ELSE Outcome(id, Append(rows, Row(id, content, stored, "drawing", <<"user", user_id>>, NoMeta)), FALSE)

\* the index globals after a call with outcome o
IndexAfter(o) ==
    IF o.rebuilt THEN _rebuild_bm25_index(o.rows, BM25_INDEX, BM25_CORPUS, BM25_IDS)
    ELSE <<BM25_INDEX, BM25_CORPUS, BM25_IDS>>

Apply(o) ==
    /\ Len(o.rows) <= MaxItems
    /\ knowledge' = o.rows
    /\ BM25_INDEX' = IndexAfter(o)[1]
    /\ BM25_CORPUS' = IndexAfter(o)[2]
    /\ BM25_IDS' = IndexAfter(o)[3]

(***************************************************************************)
(* Query normalizer and re-ranker.                                         *)
(***************************************************************************)
\* str.replace('"', ''): every quote character goes
RECURSIVE RemoveQuotes(_)
RemoveQuotes(text) ==
    IF text = <<>> THEN <<>>
    ELSE IF Head(text) = "\"" THEN RemoveQuotes(Tail(text))
    ELSE <<Head(text)>> \o RemoveQuotes(Tail(text))

MinQueryLen == 3
MaxGrowth == 2

\* the normalizer taking whatever the LLM wrote
standardize_without_length_check(query, reply) ==
    IF reply = Null THEN query ELSE RemoveQuotes(Strip(reply))

\* _standardize_query: reply is the LLM's text, Null when there is no key
\* or the call raised
_standardize_query(query, reply) ==
    IF reply = Null THEN query
    ELSE LET clean == RemoveQuotes(Strip(reply))
         IN  IF CharLen(clean) < MinQueryLen \/ CharLen(clean) > CharLen(query) * MaxGrowth THEN query
             ELSE clean

\* what the normalizer LLM may answer
Replies == {Null, RewriteBot, RewriteLong, RewriteCat}

\* CROSS_ENCODER.predict on one (query, content) pair: the logit of the
\* loaded model, a fixed function of the pair
Logit(model, query, content) ==
    CASE model = "m1" /\ content = FactA   -> IF query = RewriteBot THEN 2 ELSE 5
      [] model = "m1" /\ content = FactB   -> 3
      [] model = "m1" /\ content = Search1 -> IF query = QueryEmpty THEN -1 ELSE 3
      [] model = "m1"                      -> -4
      [] model = "m2" /\ content = Search1 -> 6
      [] model = "m2" /\ content = FactB   -> IF query = QueryBot THEN 0 ELSE 1
      [] model = "m2" /\ content = Draw1   -> 2
      [] OTHER                             -> -2

(***************************************************************************)
(* retrieve_relevant_knowledge.                                            *)
(***************************************************************************)
TopN == 20
FloorGap == 15

ZeroScore == <<0, 1>>

Item(id, content, type, source, vector_score, metadata) ==
    [id |-> id, content |-> content, type |-> type, source |-> source,
     vector_score |-> vector_score, metadata |-> metadata,
     has_bm25 |-> FALSE, bm25_score |-> 0, has_rerank |-> FALSE, rerank_score |-> 0]

\* the stable order list.sort(key, reverse=True) gives: before[j, i] says
\* the key of items[j] is greater than the key of items[i]
SortDesc(items, before) ==
    LET n == Len(items)
        Rank(i) == Cardinality({j \in 1..n : \/ before[j, i]
                                             \/ (~before[i, j] /\ j < i)}) + 1
    IN  [k \in 1..n |-> items[CHOOSE i \in 1..n : Rank(i) = k]]

\* the semantic scan without its floor: every row with a usable embedding
RECURSIVE VectorSearchNoFloor(_, _, _)
VectorSearchNoFloor(rows, query_embedding, threshold) ==
    IF rows = <<>> THEN <<>>
    ELSE LET row   == Head(rows)
             rest  == VectorSearchNoFloor(Tail(rows), query_embedding, threshold)
             score == _cosine_similarity(query_embedding, row.embedding)
         IN  IF query_embedding # Null /\ row.embedding # <<>>
             THEN <<Item(row.id, row.content, row.knowledge_type, "knowledge", score, row.metadata)>> \o rest
             ELSE rest

\* the semantic scan of the table: rows whose embedding parses to a vector
\* of the query's dimension and whose cosine reaches threshold - 0.15; a
\* cosine that raises (no query vector, "[]" stored) skips the row
RECURSIVE VectorSearch(_, _, _)
VectorSearch(rows, query_embedding, threshold) ==
    IF rows = <<>> THEN <<>>
    ELSE LET row   == Head(rows)
             rest  == VectorSearch(Tail(rows), query_embedding, threshold)
             score == _cosine_similarity(query_embedding, row.embedding)
         IN  IF /\ query_embedding # Null
                /\ row.embedding # <<>>
                /\ ScoreGE(score, Pct(threshold - FloorGap))
             THEN <<Item(row.id, row.content, row.knowledge_type, "knowledge", score, row.metadata)>> \o rest
             ELSE rest

\* np.argsort(scores)[::-1][:20]: positions by ascending score (stable,
\* numpy sorts short arrays by insertion), reversed, the first twenty
ArgsortTop(scores) ==
    LET n == Len(scores)
        Rank(i) == Cardinality({j \in 1..n : \/ scores[j] < scores[i]
                                             \/ (scores[j] = scores[i] /\ j < i)}) + 1
        asc == [k \in 1..n |-> CHOOSE i \in 1..n : Rank(i) = k]
        desc == [k \in 1..n |-> asc[n + 1 - k]]
    IN  SubSeq(desc, 1, IF n < TopN THEN n ELSE TopN)

HasId(cands, id) == \E i \in 1..Len(cands) : cands[i].id = id

\* SELECT metadata FROM knowledge WHERE id = ?; {} when there is no row
MetadataOf(rows, id) == IF id \in Ids(rows) THEN RowOf(rows, id).metadata ELSE NoMeta

\* BM25_IDS[idx] or BM25_CORPUS[idx] raises IndexError for a positive score
\* at a position the lists do not have
KeywordRaises(scores, top, ids, corpus) ==
    \E k \in 1..Len(top) :
        /\ scores[top[k]] > 0
        /\ (top[k] > Len(ids) \/ top[k] > Len(corpus))

\* the keyword loop: a positive-scoring document not yet a candidate is
\* added from the index's own lists, then every one gets its bm25_score
RECURSIVE KeywordMerge(_, _, _, _, _, _)
KeywordMerge(cands, top, scores, rows, ids, corpus) ==
    IF top = <<>> THEN cands
    ELSE LET idx    == Head(top)
             score  == scores[idx]
             doc_id == ids[idx]
             added  == IF HasId(cands, doc_id) THEN cands
                       ELSE Append(cands, Item(doc_id, corpus[idx], "knowledge", "bm25",
                                               ZeroScore, MetadataOf(rows, doc_id)))
             scored == [i \in 1..Len(added) |->
                          IF added[i].id = doc_id
                          THEN [added[i] EXCEPT !.has_bm25 = TRUE, !.bm25_score = score]
                          ELSE added[i]]
         IN  IF score > 0 THEN KeywordMerge(scored, Tail(top), scores, rows, ids, corpus)
             ELSE KeywordMerge(cands, Tail(top), scores, rows, ids, corpus)

\* final_results[:limit]
Slice(items, limit) ==
    LET n == Len(items)
        m == IF limit >= 0 THEN (IF limit < n THEN limit ELSE n)
             ELSE (IF n + limit > 0 THEN n + limit ELSE 0)
    IN  SubSeq(items, 1, m)

\* the re-ranking branch without its sort
RerankUnsorted(cands, model, clean_query) ==
    LET scored == [i \in 1..Len(cands) |->
                      [cands[i] EXCEPT !.has_rerank = TRUE,
                                       !.rerank_score = Logit(model, clean_query, cands[i].content)]]
    IN  SelectSeq(scored, LAMBDA x : x.rerank_score > 0)

\* the re-ranking branch without its filter
RerankUnfiltered(cands, model, clean_query) ==
    LET scored == [i \in 1..Len(cands) |->
                      [cands[i] EXCEPT !.has_rerank = TRUE,
                                       !.rerank_score = Logit(model, clean_query, cands[i].content)]]
    IN  SortDesc(scored, [i, j \in 1..Len(scored) |-> scored[i].rerank_score > scored[j].rerank_score])

\* the re-ranking branch: score, keep logits > 0, sort by logit
Rerank(cands, model, clean_query) ==
    LET scored == [i \in 1..Len(cands) |->
                      [cands[i] EXCEPT !.has_rerank = TRUE,
                                       !.rerank_score = Logit(model, clean_query, cands[i].content)]]
        kept   == SelectSeq(scored, LAMBDA x : x.rerank_score > 0)
    IN  SortDesc(kept, [i, j \in 1..Len(kept) |-> kept[i].rerank_score > kept[j].rerank_score])

\* the fallback left out: the candidates in the order they were found
FallbackUnsorted(cands) == cands

\* no re-ranker: sort by vector_score alone
FallbackSort(cands) ==
    SortDesc(cands, [i, j \in 1..Len(cands) |-> ScoreGT(cands[i].vector_score, cands[j].vector_score)])

\* the keyword block on top of the semantic candidates: the merged
\* candidates, or raised when an index list is too short
KeywordSearch(semantic, rows, index, corpus, ids, clean_query) ==
    IF index = NoIndex THEN [raised |-> FALSE, cands |-> semantic]
    ELSE LET scores == get_scores(index, LowerSplit(clean_query))
             top    == ArgsortTop(scores)
         IN  IF KeywordRaises(scores, top, ids, corpus)
             THEN [raised |-> TRUE, cands |-> semantic]
             ELSE [raised |-> FALSE, cands |-> KeywordMerge(semantic, top, scores, rows, ids, corpus)]

\* the candidates of one retrieval: the semantic scan, then the keyword loop
Candidates(rows, index, corpus, ids, clean_query, query_embedding, threshold) ==
    KeywordSearch(VectorSearch(rows, query_embedding, threshold), rows, index, corpus, ids, clean_query)

\* the retrieval without its early return on a missing query vector
retrieve_without_embedding_check(rows, index, corpus, ids, model, query, limit, threshold, reply, qembOk) ==
    LET clean_query     == _standardize_query(query, reply)
        query_embedding == get_query_embedding(clean_query, qembOk)
        found           == Candidates(rows, index, corpus, ids, clean_query, query_embedding, threshold)
    IN  IF found.raised THEN <<>>
        ELSE IF found.cands = <<>> THEN <<>>
        ELSE IF model # None THEN Slice(Rerank(found.cands, model, clean_query), limit)
        ELSE Slice(FallbackSort(found.cands), limit)

\* retrieve_relevant_knowledge: reply is the normalizer LLM's answer and
\* qembOk whether the query embedding call succeeds; an exception inside
\* the try block returns []
retrieve_relevant_knowledge(rows, index, corpus, ids, model, query, limit, threshold, reply, qembOk) ==
    LET clean_query     == _standardize_query(query, reply)
        query_embedding == get_query_embedding(clean_query, qembOk)
        found           == Candidates(rows, index, corpus, ids, clean_query, query_embedding, threshold)
    IN  IF query_embedding = Null THEN <<>>
        ELSE IF found.raised THEN <<>>
        ELSE IF found.cands = <<>> THEN <<>>
        ELSE IF model # None THEN Slice(Rerank(found.cands, model, clean_query), limit)
        ELSE Slice(FallbackSort(found.cands), limit)

(***************************************************************************)
(* format_knowledge_for_context.  The literal pieces of the template are   *)
(* single tokens; "\n" is the line separator token.                        *)
(***************************************************************************)
\* "\n".join(lines)
RECURSIVE JoinLines(_)
JoinLines(lines) ==
    IF lines = <<>> THEN <<>>
    ELSE IF Len(lines) = 1 THEN lines[1]
    ELSE lines[1] \o <<"\n">> \o JoinLines(Tail(lines))

HeaderLine == <<"RELEVANT MEMORY FACTS:">>

InstructionLine(current_username) ==
    <<"(Current conversation is with ", current_username,
      ". Use facts about other users only when directly relevant to the topic.)">>

\* the loop body with the label left out
FormatItemUnlabeled(item) == <<"-", " ">> \o item.content

\* one formatted.append(...) of the loop
FormatItem(item) ==
    LET username == item.metadata.username
    IN  IF item.type = "user_fact" /\ username # None
        THEN <<"-", " ", "[", username, "]", " ">> \o item.content
        ELSE <<"-", " ">> \o item.content

\* the formatter without its guard for an empty list
format_without_empty_check(items, current_username) ==
    JoinLines(<<HeaderLine>>
              \o (IF current_username # None THEN <<InstructionLine(current_username)>> ELSE <<>>)
              \o [i \in 1..Len(items) |-> FormatItem(items[i])])

format_knowledge_for_context(items, current_username) ==
    IF items = <<>> THEN <<>>
    ELSE JoinLines(<<HeaderLine>>
                   \o (IF current_username # None THEN <<InstructionLine(current_username)>> ELSE <<>>)
                   \o [i \in 1..Len(items) |-> FormatItem(items[i])])

(***************************************************************************)
(* Inputs of the calls.                                                    *)
(***************************************************************************)
Users     == {"1"}
Times     == {0}
Models    == {"m1", "m2"}
Limits     == {-1, 0, 1, 2}
Thresholds == {78, 70}

(***************************************************************************)
(* Actions: one per public call.  Calls follow one another: `last` holds   *)
(* the call that just returned until its caller has taken the result.      *)
(***************************************************************************)
\* no call is waiting on a service
NoCall == [op |-> "none"]

\* shared_memory.json: missing or holding an empty list
NoFile == [readable |-> TRUE, history |-> <<>>]

Idle == last.op = "idle"

Return ==
    /\ ~Idle
    /\ last' = [op |-> "idle"]
    /\ UNCHANGED <<knowledge, BM25_INDEX, BM25_CORPUS, BM25_IDS, CROSS_ENCODER, search_knowledge>>
    /\ UNCHANGED <<pending, sharedVars, otherVars>>

StoreKnowledge(content, ts, embOk, writeOk) ==
    LET o == store_knowledge(knowledge, content, "general", <<"import">>, NoMeta, ts, embOk, writeOk)
    IN  /\ Idle
        /\ Apply(o)
        /\ last' = [op |-> "store_knowledge", content |-> content, ts |-> ts, embOk |-> embOk,
                    writeOk |-> writeOk, replaced |-> KnowledgeId("know", content, ts) \in Ids(knowledge),
                    result |-> o.id]
        /\ UNCHANGED <<CROSS_ENCODER, search_knowledge>>
        /\ UNCHANGED <<pending, sharedVars, otherVars>>

StoreConversation(user_message, gemgem_response, reply, user_id, ts, dupEmbOk, embOk, writeOk) ==
    LET o == store_conversation(knowledge, user_message, gemgem_response, reply, user_id, "Hiep",
                                ts, dupEmbOk, embOk, writeOk)
    IN  /\ Idle
        /\ Apply(o)
        /\ last' = [op |-> "store_conversation", user_message |-> user_message,
                    gemgem_response |-> gemgem_response, reply |-> reply,
                    content |-> ExtractedFact(user_message, gemgem_response, reply),
                    ts |-> ts, user_id |-> user_id,
                    dupEmbOk |-> dupEmbOk, embOk |-> embOk, writeOk |-> writeOk,
                    result |-> o.id]
        /\ UNCHANGED <<CROSS_ENCODER, search_knowledge>>
        /\ UNCHANGED <<pending, sharedVars, otherVars>>

\* store_memory: the legacy entry, routed to store_knowledge with the
\* caller's type and metadata and no source
StoreMemory(content, memory_type, metadata, ts, embOk, writeOk) ==
    LET o == store_knowledge(knowledge, content, memory_type, Null, metadata, ts, embOk, writeOk)
    IN  /\ Idle
        /\ Apply(o)
        /\ last' = [op |-> "store_memory", content |-> content, ts |-> ts, embOk |-> embOk,
                    writeOk |-> writeOk, result |-> o.id]
        /\ UNCHANGED <<CROSS_ENCODER, search_knowledge>>
        /\ UNCHANGED <<pending, sharedVars, otherVars>>

StoreDrawingKnowledge(content, user_id, ts, embOk, writeOk) ==
    LET o == store_drawing_knowledge(knowledge, content, user_id, ts, embOk, writeOk)
    IN  /\ Idle
        /\ Apply(o)
        /\ last' = [op |-> "store_drawing_knowledge", content |-> content, ts |-> ts, embOk |-> embOk,
                    writeOk |-> writeOk, result |-> o.id]
        /\ UNCHANGED <<CROSS_ENCODER, search_knowledge>>
        /\ UNCHANGED <<pending, sharedVars, otherVars>>

\* store_full_search: the result text goes to the knowledge table through
\* store_knowledge (its result is dropped), then to search_knowledge
StoreFullSearch(content, ts, embOk, writeOk, searchWriteOk) ==
    LET o   == store_knowledge(knowledge, content, "search", <<"searxng">>, NoMeta, ts, embOk, writeOk)
        sid == KnowledgeId("search", QueryBot, ts)
    IN  /\ Idle
        /\ Apply(o)
        /\ search_knowledge' = IF searchWriteOk THEN search_knowledge \cup {sid} ELSE search_knowledge
        /\ last' = [op |-> "store_full_search", content |-> content, ts |-> ts, embOk |-> embOk,
                    writeOk |-> writeOk, result |-> IF searchWriteOk THEN sid ELSE Null]
        /\ UNCHANGED CROSS_ENCODER
        /\ UNCHANGED <<pending, sharedVars, otherVars>>

Retrieve(query, limit, threshold, reply, qembOk) ==
    /\ Idle
    /\ last' = [op |-> "retrieve", query |-> query, limit |-> limit, threshold |-> threshold,
                clean |-> _standardize_query(query, reply), qembOk |-> qembOk,
                result |-> retrieve_relevant_knowledge(knowledge, BM25_INDEX, BM25_CORPUS, BM25_IDS,
                               CROSS_ENCODER, query, limit, threshold, reply, qembOk)]
    /\ UNCHANGED <<knowledge, BM25_INDEX, BM25_CORPUS, BM25_IDS, CROSS_ENCODER, search_knowledge>>
    /\ UNCHANGED <<pending, sharedVars, otherVars>>

\* process start (_init_db at import): the globals start empty, the
\* re-ranker loads or not, the index is built from the table on disk
Restart(model) ==
    LET r == _rebuild_bm25_index(knowledge, NoIndex, <<>>, <<>>)
    IN  /\ Idle
        /\ CROSS_ENCODER' = model
        /\ BM25_INDEX' = r[1]
        /\ BM25_CORPUS' = r[2]
        /\ BM25_IDS' = r[3]
        /\ last' = [op |-> "init"]
        /\ UNCHANGED <<knowledge, search_knowledge>>
        /\ UNCHANGED <<pending, sharedVars, otherVars>>

\* no worker thread is running and no retrieval is in its keyword block
IdleWorker == [pc |-> "idle", row |-> <<>>, rows |-> <<>>, tokenized |-> <<>>]
IdleReader == [pc |-> "idle", index |-> NoIndex, ids |-> <<>>, corpus |-> <<>>]
MaxWorkers == 2
Workers == 1..MaxWorkers

MaxTasks == 2
Tasks == 1..MaxTasks
InitialCount == 48

\* a joined guild whose queue is empty and whose voice client is idle
MaxProcs == 2
Procs == 1..MaxProcs
NoClip == 0
Joined == [connected |-> TRUE, playing |-> NoClip, owner |-> 0, leaving |-> "no"]

InitThreads ==
    /\ workers = [w \in Workers |-> IdleWorker]
    /\ reader = IdleReader

InitChat ==
    /\ is_summarizing = FALSE
    /\ msgs_since_summary = InitialCount
    /\ summary_cache = ""
    /\ summaries = [t \in Tasks |-> "free"]

InitVoice ==
    /\ voice_queues = <<>>
    /\ currently_playing = FALSE
    /\ voice_client = Joined
    /\ processors = [p \in Procs |-> "free"]
    /\ speaking = {}
    /\ queued = <<>>
    /\ played = <<>>

InitOther ==
    /\ InitThreads
    /\ ready = <<>>
    /\ InitChat
    /\ InitVoice

Init ==
    /\ InitOther
    /\ knowledge = <<>>
    /\ search_knowledge = {}
    /\ BM25_INDEX = NoIndex
    /\ BM25_CORPUS = <<>>
    /\ BM25_IDS = <<>>
    /\ CROSS_ENCODER \in Models \cup {None}
    /\ last = [op |-> "init"]
    /\ pending = NoCall
    /\ memory_file = NoFile
    /\ appended = <<>>
    /\ save_failed = FALSE

Next ==
    \/ \E c \in {Know1}, ts \in Times, e \in BOOLEAN, w \in BOOLEAN :
          StoreKnowledge(c, ts, e, w)
    \/ \E r \in {LLMReply("raised", <<>>), LLMReply("text", AnswerFactA), LLMReply("text", AnswerFactB)},
          u \in Users, ts \in Times, d \in BOOLEAN, e \in BOOLEAN, w \in BOOLEAN :
          StoreConversation(MsgWork, RespShort, r, u, ts, d, e, w)
    \/ \E ts \in Times, e \in BOOLEAN, w \in BOOLEAN :
          StoreMemory(Know1, "chat", NoMeta, ts, e, w)
    \/ \E u \in Users, ts \in Times, e \in BOOLEAN, w \in BOOLEAN :
          StoreDrawingKnowledge(Draw1, u, ts, e, w)
    \/ \E ts \in Times, e \in BOOLEAN, w \in BOOLEAN, sw \in BOOLEAN :
          StoreFullSearch(Search1, ts, e, w, sw)
    \/ \E q \in Queries, l \in Limits, t \in Thresholds, r \in Replies, e \in BOOLEAN :
          Retrieve(q, l, t, r, e)
    \/ \E m \in Models \cup {None} : Restart(m)
    \/ Return

Spec == Init /\ [][Next]_vars

(***************************************************************************)
(* The writers on their own, with every kind of exchange, extractor        *)
(* answer, caller and creation time.                                       *)
(***************************************************************************)
UserIds        == Users \cup {None}
StoreTimes     == {0, 1}
Utterances     == Greetings \cup {MsgWork}
Responses      == {RespShort, RespLong}
ExtractorReplies ==
    LLMFailures \cup {LLMReply("text", t) :
                        t \in {AnswerNone, AnswerFactA, AnswerFactB, AnswerThinkNone, AnswerThinkFactA}}
MemoryTypes    == {"chat", "user_fact"}
\* at most one of the duplicate-check embedding, the embedding and the
\* database write fails in a call
StoreFaults    == {<<TRUE, TRUE, TRUE>>, <<FALSE, TRUE, TRUE>>, <<TRUE, FALSE, TRUE>>, <<TRUE, TRUE, FALSE>>}

\* the writers need no re-ranker
InitStore == Init /\ CROSS_ENCODER = None

NextStore ==
    \/ \E c \in {Know1}, ts \in StoreTimes, e \in BOOLEAN, w \in BOOLEAN :
          StoreKnowledge(c, ts, e, w)
    \/ \E m \in Utterances, g \in Responses, r \in ExtractorReplies, u \in UserIds, ts \in Times,
          f \in StoreFaults :
          StoreConversation(m, g, r, u, ts, f[1], f[2], f[3])
    \/ \E c \in {FactA}, t \in MemoryTypes, ts \in Times, e \in BOOLEAN, w \in BOOLEAN :
          StoreMemory(c, t, NoMeta, ts, e, w)
    \/ Restart(None)
    \/ Return

SpecStore == InitStore /\ [][NextStore]_vars

(***************************************************************************)
(* The query normalizer on its own: every short query against every short  *)
(* answer of the LLM.                                                      *)
(***************************************************************************)
MaxQueryTokens == 2
MaxReplyTokens == 3

QueryTokens == {"hi", "bot", " "}
ReplyTokens == {"a", "bot", " ", "\""}
ShortQueries == UNION {[1..n -> QueryTokens] : n \in 0..MaxQueryTokens}
ShortReplies == {Null} \cup UNION {[1..n -> ReplyTokens] : n \in 0..MaxReplyTokens}

StandardizeQuery(query, reply) ==
    /\ Idle
    /\ last' = [op |-> "standardize", query |-> query, reply |-> reply,
                result |-> _standardize_query(query, reply)]
    /\ UNCHANGED <<knowledge, BM25_INDEX, BM25_CORPUS, BM25_IDS, CROSS_ENCODER, search_knowledge>>
    /\ UNCHANGED <<pending, sharedVars, otherVars>>

NextNormalize ==
    \/ \E q \in ShortQueries, r \in ShortReplies : StandardizeQuery(q, r)
    \/ Return

SpecNormalize == Init /\ [][NextNormalize]_vars

(***************************************************************************)
(* The formatter on its own: every list of up to MaxList items a caller    *)
(* may pass, with and without the current speaker's name.                  *)
(***************************************************************************)
FormatContents == {FactA, Search1}
FormatTypes    == {"user_fact", "knowledge", "search"}
FormatItems ==
    {Item(KnowledgeId("know", c, 0), c, t, "knowledge", ZeroScore, Meta(u, u2)) :
        c \in FormatContents, t \in FormatTypes, u \in {None, "Hiep"}, u2 \in {"1"}}

ItemLists == UNION {[1..n -> FormatItems] : n \in 0..MaxList}

FormatKnowledge(items, current_username) ==
    /\ Idle
    /\ last' = [op |-> "format", knowledge |-> items, current_username |-> current_username,
                result |-> format_knowledge_for_context(items, current_username)]
    /\ UNCHANGED <<knowledge, BM25_INDEX, BM25_CORPUS, BM25_IDS, CROSS_ENCODER, search_knowledge>>
    /\ UNCHANGED <<pending, sharedVars, otherVars>>

NextFormat ==
    \/ \E items \in ItemLists, cu \in {None, "Hiep"} : FormatKnowledge(items, cu)
    \/ Return

SpecFormat == Init /\ [][NextFormat]_vars

(***************************************************************************)
(* The calls step by step: a call that reaches an external service waits   *)
(* for its response and goes on when the response is there.  No await in   *)
(* rag.py and no call in embeddings.py is given a timeout.                 *)
(***************************************************************************)
LLMStages       == {"normalizer", "extractor"}
EmbeddingStages == {"query_embedding", "duplicate_embedding", "embedding"}

\* retrieve_relevant_knowledge up to its first await, _standardize_query
CallRetrieve(query, limit, threshold) ==
    /\ Idle
    /\ pending = NoCall
    /\ pending' = [op |-> "retrieve", awaiting |-> "normalizer", responded |-> FALSE,
                   query |-> query, limit |-> limit, threshold |-> threshold,
                   reply |-> Null, qembOk |-> FALSE]
    /\ UNCHANGED <<ragVars, last, sharedVars, otherVars>>

\* store_conversation up to its first await: a short exchange returns at
\* once, any other waits for the extractor
CallStoreConversation(user_message, gemgem_response, user_id, ts) ==
    /\ Idle
    /\ pending = NoCall
    /\ Len(knowledge) < MaxItems
    /\ IF SkipsShortExchange(user_message, gemgem_response)
       THEN /\ last' = [op |-> "store_conversation", user_message |-> user_message,
                        gemgem_response |-> gemgem_response, result |-> Null]
            /\ UNCHANGED pending
       ELSE /\ pending' = [op |-> "store_conversation", awaiting |-> "extractor", responded |-> FALSE,
                           user_message |-> user_message, gemgem_response |-> gemgem_response,
                           user_id |-> user_id, ts |-> ts,
                           reply |-> LLMReply("raised", <<>>), dupEmbOk |-> FALSE, embOk |-> FALSE]
            /\ UNCHANGED last
    /\ UNCHANGED <<ragVars, sharedVars, otherVars>>

\* the LLM service answers generate_content_async, or the request raises
LLMResponds(reply) ==
    /\ pending.op # "none"
    /\ pending.awaiting \in LLMStages
    /\ ~pending.responded
    /\ pending' = [pending EXCEPT !.responded = TRUE, !.reply = reply]
    /\ UNCHANGED <<ragVars, last, sharedVars, otherVars>>

\* the embedding service answers embed_content, or the request raises
EmbeddingResponds(ok) ==
    /\ pending.op # "none"
    /\ pending.awaiting \in EmbeddingStages
    /\ ~pending.responded
    /\ pending' = CASE pending.awaiting = "query_embedding" ->
                         [pending EXCEPT !.responded = TRUE, !.qembOk = ok]
                     [] pending.awaiting = "duplicate_embedding" ->
                         [pending EXCEPT !.responded = TRUE, !.dupEmbOk = ok]
                     [] OTHER ->
                         [pending EXCEPT !.responded = TRUE, !.embOk = ok]
    /\ UNCHANGED <<ragVars, last, sharedVars, otherVars>>

\* retrieve_relevant_knowledge resumes: after the normalizer it asks for
\* the query embedding, after that it searches, ranks and returns
ContinueRetrieve ==
    /\ pending.op = "retrieve"
    /\ pending.responded
    /\ IF pending.awaiting = "normalizer"
       THEN /\ pending' = [pending EXCEPT !.awaiting = "query_embedding", !.responded = FALSE]
            /\ UNCHANGED last
       ELSE /\ pending' = NoCall
            /\ last' = [op |-> "retrieve", query |-> pending.query, limit |-> pending.limit,
                        threshold |-> pending.threshold,
                        clean |-> _standardize_query(pending.query, pending.reply),
                        qembOk |-> pending.qembOk,
                        result |-> retrieve_relevant_knowledge(knowledge, BM25_INDEX, BM25_CORPUS,
                                       BM25_IDS, CROSS_ENCODER, pending.query, pending.limit,
                                       pending.threshold, pending.reply, pending.qembOk)]
    /\ UNCHANGED <<ragVars, sharedVars, otherVars>>

\* store_conversation resumes: no fact returns None; a fact goes to the
\* duplicate check and then to store_knowledge, each with its embedding
ContinueStoreConversation(writeOk) ==
    LET fact == ExtractedFact(pending.user_message, pending.gemgem_response, pending.reply)
        dup  == _is_duplicate_fact(knowledge, fact, pending.user_id, pending.dupEmbOk, SimilarityThreshold)
        o    == store_conversation(knowledge, pending.user_message, pending.gemgem_response,
                                   pending.reply, pending.user_id, "Hiep", pending.ts,
                                   pending.dupEmbOk, pending.embOk, writeOk)
        done == \/ pending.awaiting = "extractor" /\ fact = Null
                \/ pending.awaiting = "duplicate_embedding" /\ dup
                \/ pending.awaiting = "embedding"
    IN  /\ pending.op = "store_conversation"
        /\ pending.responded
        /\ IF done
           THEN /\ pending' = NoCall
                /\ Apply(o)
                /\ last' = [op |-> "store_conversation", user_message |-> pending.user_message,
                            gemgem_response |-> pending.gemgem_response, result |-> o.id]
           ELSE /\ pending' = [pending EXCEPT
                                  !.awaiting = IF pending.awaiting = "extractor"
                                               THEN "duplicate_embedding" ELSE "embedding",
                                  !.responded = FALSE]
                /\ UNCHANGED <<knowledge, BM25_INDEX, BM25_CORPUS, BM25_IDS, last>>
        /\ UNCHANGED <<CROSS_ENCODER, search_knowledge, sharedVars, otherVars>>

NextCalls ==
    \/ \E q \in Queries, l \in {1, 2}, t \in {78} : CallRetrieve(q, l, t)
    \/ \E m \in {MsgHey, MsgWork}, g \in Responses, u \in Users, ts \in Times :
          CallStoreConversation(m, g, u, ts)
    \/ \E r \in (IF pending.op = "retrieve" THEN Replies
                  ELSE {LLMReply("raised", <<>>), LLMReply("text", AnswerFactA), LLMReply("text", AnswerFactB)}) :
          LLMResponds(r)
    \/ \E ok \in BOOLEAN : EmbeddingResponds(ok)
    \/ ContinueRetrieve
    \/ \E w \in BOOLEAN : ContinueStoreConversation(w)
    \/ Return

\* the event loop resumes a coroutine whose awaited response is there, and
\* a caller takes the result of a call that returned; nothing makes a
\* service respond
SpecCalls ==
    /\ Init
    /\ [][NextCalls]_vars
    /\ WF_vars(ContinueRetrieve)
    /\ WF_vars(\E w \in BOOLEAN : ContinueStoreConversation(w))
    /\ WF_vars(Return)

(***************************************************************************)
(* SharedMemoryManager (shared_memory.py): the rolling window of messages  *)
(* kept in shared_memory.json.                                             *)
(***************************************************************************)
MAX_HISTORY == 100

\* history[-MAX_HISTORY:] when the list is longer than the window
RollingWindow(history) ==
    IF Len(history) > MAX_HISTORY
    THEN SubSeq(history, Len(history) - MAX_HISTORY + 1, Len(history))
    ELSE history

\* load_memory: a missing file and a file json.load cannot read give []
load_memory(file) ==
    RollingWindow(IF file.readable THEN file.history ELSE <<>>)

\* how a write of the file ends: done, open() raised (the file is as it
\* was), or the dump raised after open() had truncated the file
SaveOutcomes == {"ok", "open_fails", "write_fails"}

\* save_memory writing the whole list it is given
save_without_window(file, history, outcome) ==
    CASE outcome = "ok"         -> [file |-> [readable |-> TRUE, history |-> history], ok |-> TRUE]
      [] outcome = "open_fails" -> [file |-> file, ok |-> FALSE]
      [] OTHER                  -> [file |-> [readable |-> FALSE, history |-> <<>>], ok |-> FALSE]

\* save_memory: the file after the call and the boolean returned
save_memory(file, history, outcome) ==
    CASE outcome = "ok"         -> [file |-> [readable |-> TRUE, history |-> RollingWindow(history)],
                                    ok |-> TRUE]
      [] outcome = "open_fails" -> [file |-> file, ok |-> FALSE]
      [] OTHER                  -> [file |-> [readable |-> FALSE, history |-> <<>>], ok |-> FALSE]

\* one message dict; the username key is set only for a non-empty name
Message(role, content, username, timestamp) ==
    [role |-> role, parts |-> <<content>>, username |-> username, timestamp |-> timestamp]

\* append_message: the file after the call and the list returned
append_message(file, role, content, username, now, outcome) ==
    LET history == Append(load_memory(file), Message(role, content, username, now))
    IN  [file |-> save_memory(file, history, outcome).file, history |-> history]

\* append_conversation_turn: the user's message, then the bot's, one timestamp
append_conversation_turn(file, user_message, bot_response, username, now, outcome) ==
    LET new_turns == <<Message("user", user_message, username, now),
                       Message("model", bot_response, None, now)>>
        history   == load_memory(file) \o new_turns
    IN  [file |-> save_memory(file, history, outcome).file, history |-> history]

MaxAppends == 3     \* messages appended after start

\* the messages of this run carry the timestamps 1, 2, ...; what the file
\* held at start is older
NewCount == Cardinality({i \in 1..Len(appended) : appended[i].timestamp > 0})
Now == NewCount + 1

Prefilled(k) == [i \in 1..k |-> Message("user", MsgHey, "Hiep", i - k)]

AppendMessage(role, content, username, outcome) ==
    LET r == append_message(memory_file, role, content, username, Now, outcome)
    IN  /\ NewCount + 1 <= MaxAppends
        /\ memory_file' = r.file
        /\ appended' = Append(appended, Message(role, content, username, Now))
        /\ save_failed' = (save_failed \/ outcome # "ok")
        /\ UNCHANGED <<ragVars, last, pending, otherVars>>

AppendConversationTurn(user_message, bot_response, username, outcome) ==
    LET r == append_conversation_turn(memory_file, user_message, bot_response, username, Now, outcome)
    IN  /\ NewCount + 2 <= MaxAppends
        /\ memory_file' = r.file
        /\ appended' = appended \o <<Message("user", user_message, username, Now),
                                      Message("model", bot_response, None, Now)>>
        /\ save_failed' = (save_failed \/ outcome # "ok")
        /\ UNCHANGED <<ragVars, last, pending, otherVars>>

\* save_memory called by itself, with the loaded history
SaveMemory(outcome) ==
    LET r == save_memory(memory_file, load_memory(memory_file), outcome)
    IN  /\ memory_file' = r.file
        /\ save_failed' = (save_failed \/ outcome # "ok")
        /\ UNCHANGED <<ragVars, last, pending, appended, otherVars>>

\* the manager starts on the file an earlier run left
InitShared ==
    /\ InitOther
    /\ knowledge = <<>>
    /\ search_knowledge = {}
    /\ BM25_INDEX = NoIndex
    /\ BM25_CORPUS = <<>>
    /\ BM25_IDS = <<>>
    /\ CROSS_ENCODER = None
    /\ last = [op |-> "init"]
    /\ pending = NoCall
    /\ \E k \in {0, MAX_HISTORY - 2, MAX_HISTORY} :
          /\ memory_file = [readable |-> TRUE, history |-> Prefilled(k)]
          /\ appended = Prefilled(k)
    /\ save_failed = FALSE

NextShared ==
    \/ \E role \in {"user", "model"}, o \in SaveOutcomes :
          AppendMessage(role, MsgHey, IF role = "user" THEN "Hiep" ELSE None, o)
    \/ \E o \in SaveOutcomes : AppendConversationTurn(MsgHey, RespShort, "Hiep", o)
    \/ \E o \in SaveOutcomes : SaveMemory(o)

SpecShared == InitShared /\ [][NextShared]_vars

(***************************************************************************)
(* SpecDuplicate: the duplicate check on its own, over the tables the      *)
(* writers of user facts produce.                                          *)
(***************************************************************************)
\* one call of _is_duplicate_fact with the default threshold
IsDuplicateFact(new_fact, user_id, embOk) ==
    /\ Idle
    /\ last' = [op |-> "is_duplicate_fact", new_fact |-> new_fact, user_id |-> user_id,
                embOk |-> embOk,
                result |-> _is_duplicate_fact(knowledge, new_fact, user_id, embOk,
                                              SimilarityThreshold)]
    /\ UNCHANGED <<knowledge, BM25_INDEX, BM25_CORPUS, BM25_IDS, CROSS_ENCODER, search_knowledge>>
    /\ UNCHANGED <<pending, sharedVars, otherVars>>

NextDuplicate ==
    \/ \E r \in {AnswerFactA, AnswerFactB}, u \in UserIds, ts \in Times :
          StoreConversation(MsgWork, RespShort, LLMReply("text", r), u, ts, TRUE, TRUE, TRUE)
    \/ \E c \in {FactA, Know1}, t \in MemoryTypes, ts \in Times :
          StoreMemory(c, t, NoMeta, ts, TRUE, TRUE)
    \/ \E f \in {FactA, FactB, Know1}, u \in UserIds, e \in BOOLEAN : IsDuplicateFact(f, u, e)
    \/ Return

SpecDuplicate == InitStore /\ [][NextDuplicate]_vars

(***************************************************************************)
(* SpecLabel: retrievals whose query shares a word with a stored user      *)
(* fact while its vector is far from the fact's.                           *)
(***************************************************************************)
NextLabel ==
    \/ \E r \in {AnswerFactA, AnswerFactB}, u \in Users, ts \in Times :
          StoreConversation(MsgWork, RespShort, LLMReply("text", r), u, ts, TRUE, TRUE, TRUE)
    \/ \E ts \in Times : StoreMemory(Know1, "chat", NoMeta, ts, TRUE, TRUE)
    \/ \E l \in {1, 2}, t \in Thresholds, r \in {Null, RewriteBuilds}, e \in BOOLEAN :
          Retrieve(QueryBot, l, t, r, e)
    \/ \E m \in Models \cup {None} : Restart(m)
    \/ Return

SpecLabel == Init /\ [][NextLabel]_vars

(***************************************************************************)
(* SpecExtract: the fact extractor on its own, over every short answer the *)
(* LLM can give.                                                           *)
(***************************************************************************)
MaxExtractTokens == 5
ExtractTokens == {"<think>", "</think>", "<thi", "nk>", "remembered", " ", "none"}
ExtractTexts ==
    UNION {[1..n -> ExtractTokens] : n \in 0..MaxExtractTokens}
ExtractAnswers == LLMFailures \cup {LLMReply("text", t) : t \in ExtractTexts}

ExtractFact(reply) ==
    /\ Idle
    /\ last' = [op |-> "extract", reply |-> reply,
                result |-> _extract_fact_from_conversation(reply)]
    /\ UNCHANGED <<knowledge, BM25_INDEX, BM25_CORPUS, BM25_IDS, CROSS_ENCODER, search_knowledge>>
    /\ UNCHANGED <<pending, sharedVars, otherVars>>

NextExtract ==
    \/ (Idle /\ \E r \in ExtractAnswers : ExtractFact(r))
    \/ Return

SpecExtract == InitStore /\ [][NextExtract]_vars

(***************************************************************************)
(* SpecIndex: store_knowledge hands _do_write to a worker thread           *)
(* (asyncio.to_thread), where the INSERT and _rebuild_bm25_index run       *)
(* statement by statement beside the event loop's thread, in which a       *)
(* retrieval reads the three globals of the index one after the other.     *)
(***************************************************************************)
IndexContents == {Know1, FactA}

\* store_knowledge up to asyncio.to_thread(_do_write): the embedding is
\* there, the id is made, the write is handed to a free worker
SubmitWrite(w, content, ts) ==
    /\ workers[w].pc = "idle"
    /\ workers' = [workers EXCEPT ![w] =
                      [IdleWorker EXCEPT !.pc = "write",
                                         !.row = Row(KnowledgeId("know", content, ts), content,
                                                     DocVector(content), "general", <<"import">>, NoMeta)]]
    /\ UNCHANGED <<ragVars, last, pending, sharedVars, reader, loopVars>>

\* _do_write: INSERT OR REPLACE and commit
WorkerWrite(w) ==
    /\ workers[w].pc = "write"
    /\ knowledge' = InsertOrReplace(knowledge, workers[w].row)
    /\ workers' = [workers EXCEPT ![w].pc = "select"]
    /\ UNCHANGED <<BM25_INDEX, BM25_CORPUS, BM25_IDS, CROSS_ENCODER, search_knowledge>>
    /\ UNCHANGED <<last, pending, sharedVars, reader, loopVars>>

\* _rebuild_bm25_index: rows = cursor.fetchall()
WorkerSelect(w) ==
    /\ workers[w].pc = "select"
    /\ workers' = [workers EXCEPT ![w].pc = IF knowledge = <<>> THEN "idle" ELSE "ids",
                                  ![w].rows = knowledge]
    /\ UNCHANGED <<ragVars, last, pending, sharedVars, reader, loopVars>>

\* BM25_IDS = [r[0] for r in rows]
WorkerAssignIds(w) ==
    /\ workers[w].pc = "ids"
    /\ BM25_IDS' = [i \in 1..Len(workers[w].rows) |-> workers[w].rows[i].id]
    /\ workers' = [workers EXCEPT ![w].pc = "corpus"]
    /\ UNCHANGED <<knowledge, BM25_INDEX, BM25_CORPUS, CROSS_ENCODER, search_knowledge>>
    /\ UNCHANGED <<last, pending, sharedVars, reader, loopVars>>

\* BM25_CORPUS = [r[1] for r in rows]
WorkerAssignCorpus(w) ==
    /\ workers[w].pc = "corpus"
    /\ BM25_CORPUS' = [i \in 1..Len(workers[w].rows) |-> workers[w].rows[i].content]
    /\ workers' = [workers EXCEPT ![w].pc = "tokenize"]
    /\ UNCHANGED <<knowledge, BM25_INDEX, BM25_IDS, CROSS_ENCODER, search_knowledge>>
    /\ UNCHANGED <<last, pending, sharedVars, reader, loopVars>>

\* tokenized_corpus = [doc.lower().split() for doc in BM25_CORPUS]: the
\* global is read again
WorkerTokenize(w) ==
    /\ workers[w].pc = "tokenize"
    /\ workers' = [workers EXCEPT ![w].pc = "index",
                                  ![w].tokenized = [i \in 1..Len(BM25_CORPUS) |-> LowerSplit(BM25_CORPUS[i])]]
    /\ UNCHANGED <<ragVars, last, pending, sharedVars, reader, loopVars>>

\* BM25_INDEX = BM25Okapi(tokenized_corpus); the worker ends
WorkerAssignIndex(w) ==
    /\ workers[w].pc = "index"
    /\ BM25_INDEX' = IF BM25OkapiRaises(workers[w].tokenized) THEN BM25_INDEX
                     ELSE <<workers[w].tokenized>>
    /\ workers' = [workers EXCEPT ![w] = IdleWorker]
    /\ UNCHANGED <<knowledge, BM25_CORPUS, BM25_IDS, CROSS_ENCODER, search_knowledge>>
    /\ UNCHANGED <<last, pending, sharedVars, reader, loopVars>>

\* the keyword block of a retrieval: if BM25_INDEX: ... get_scores
ReadIndex ==
    /\ reader.pc = "idle"
    /\ BM25_INDEX # NoIndex
    /\ reader' = [IdleReader EXCEPT !.pc = "ids", !.index = BM25_INDEX]
    /\ UNCHANGED <<ragVars, last, pending, sharedVars, workers, loopVars>>

\* doc_id = BM25_IDS[idx]
ReadIds ==
    /\ reader.pc = "ids"
    /\ reader' = [reader EXCEPT !.pc = "corpus", !.ids = BM25_IDS]
    /\ UNCHANGED <<ragVars, last, pending, sharedVars, workers, loopVars>>

\* content = BM25_CORPUS[idx]
ReadCorpus ==
    /\ reader.pc = "corpus"
    /\ reader' = [reader EXCEPT !.pc = "done", !.corpus = BM25_CORPUS]
    /\ UNCHANGED <<ragVars, last, pending, sharedVars, workers, loopVars>>

\* the retrieval goes on to the re-ranking and returns
ReaderReturn ==
    /\ reader.pc = "done"
    /\ reader' = IdleReader
    /\ UNCHANGED <<ragVars, last, pending, sharedVars, workers, loopVars>>

NextIndex ==
    \/ \E w \in Workers, c \in IndexContents, ts \in Times : SubmitWrite(w, c, ts)
    \/ \E w \in Workers : WorkerWrite(w)
    \/ \E w \in Workers : WorkerSelect(w)
    \/ \E w \in Workers : WorkerAssignIds(w)
    \/ \E w \in Workers : WorkerAssignCorpus(w)
    \/ \E w \in Workers : WorkerTokenize(w)
    \/ \E w \in Workers : WorkerAssignIndex(w)
    \/ ReadIndex
    \/ ReadIds
    \/ ReadCorpus
    \/ ReaderReturn

SpecIndex == InitStore /\ [][NextIndex]_vars

(***************************************************************************)
(* SpecDedup: store_conversation calls of concurrent on_message handlers.  *)
(* From the extractor's answer to asyncio.to_thread a call runs without    *)
(* giving up the event loop (get_embedding does not suspend); its write    *)
(* is done later by the worker thread.                                     *)
(***************************************************************************)
\* store_conversation from the extractor's answer on: no fact and a
\* duplicate return None, any other fact is handed to a worker
SubmitFact(w, reply, user_id, ts) ==
    LET fact == _extract_fact_from_conversation(reply)
    IN  /\ workers[w].pc = "idle"
        /\ fact # Null
        /\ IF _is_duplicate_fact(knowledge, fact, user_id, TRUE, SimilarityThreshold)
           THEN UNCHANGED workers
           ELSE workers' = [workers EXCEPT ![w] =
                               [IdleWorker EXCEPT
                                   !.pc = "write",
                                   !.row = Row(KnowledgeId("know", fact, ts), fact, DocVector(fact),
                                               "user_fact", <<"conversation", "Hiep">>,
                                               Meta("Hiep", user_id))]]
        /\ UNCHANGED <<ragVars, last, pending, sharedVars, reader, loopVars>>

NextDedup ==
    \/ \E w \in Workers, r \in {AnswerFactA, AnswerFactB}, u \in Users, ts \in Times :
          SubmitFact(w, LLMReply("text", r), u, ts)
    \/ \E w \in Workers : WorkerWrite(w)
    \/ \E w \in Workers : WorkerSelect(w)
    \/ \E w \in Workers : WorkerAssignIds(w)
    \/ \E w \in Workers : WorkerAssignCorpus(w)
    \/ \E w \in Workers : WorkerTokenize(w)
    \/ \E w \in Workers : WorkerAssignIndex(w)

SpecDedup == InitStore /\ [][NextDedup]_vars

(***************************************************************************)
(* SpecSummary: ChatCog's background summary (cogs/chat.py).  The event    *)
(* loop runs one callback at a time, oldest first, each up to its next     *)
(* await; a task made by asyncio.create_task starts when its turn comes.   *)
(* Discord may send READY again after a reconnect, so on_ready can run at  *)
(* any time.                                                               *)
(***************************************************************************)
SummaryEvery == 100
MaxMsgs  == 101
MaxReady == 3

Callback(kind, task, outcome) == [kind |-> kind, task |-> task, outcome |-> outcome]

\* a task is free when no _update_summary coroutine uses it
FreeTask == CHOOSE t \in Tasks : summaries[t] = "free" /\ \A u \in Tasks : summaries[u] = "free" => t <= u

\* a mention arrives and its handler gets to the summary step
MessageArrives ==
    /\ Len(ready) < MaxReady
    /\ msgs_since_summary + Cardinality({i \in 1..Len(ready) : ready[i].kind = "on_message"}) < MaxMsgs
    /\ ready' = Append(ready, Callback("on_message", 0, ""))
    /\ UNCHANGED <<ragVars, last, pending, sharedVars, threadVars, chatVars, voiceVars>>

\* the gateway sends READY
ReadyArrives ==
    /\ Len(ready) < MaxReady
    /\ ready' = Append(ready, Callback("on_ready", 0, ""))
    /\ UNCHANGED <<ragVars, last, pending, sharedVars, threadVars, chatVars, voiceVars>>

\* on_message, Step 0: count the message; at 100 and with the flag down,
\* reset the counter and create the _update_summary task
RunOnMessage ==
    /\ ready # <<>>
    /\ Head(ready).kind = "on_message"
    /\ IF msgs_since_summary + 1 >= SummaryEvery /\ ~is_summarizing
       THEN /\ \E t \in Tasks : summaries[t] = "free"
            /\ msgs_since_summary' = 0
            /\ summaries' = [summaries EXCEPT ![FreeTask] = "created"]
            /\ ready' = Append(Tail(ready), Callback("start", FreeTask, ""))
       ELSE /\ msgs_since_summary' = msgs_since_summary + 1
            /\ ready' = Tail(ready)
            /\ UNCHANGED summaries
    /\ UNCHANGED <<is_summarizing, summary_cache>>
    /\ UNCHANGED <<ragVars, last, pending, sharedVars, threadVars, voiceVars>>

\* on_ready: create the _initialize_summary task for the first readable
\* channel
RunOnReady ==
    /\ ready # <<>>
    /\ Head(ready).kind = "on_ready"
    /\ \E t \in Tasks : summaries[t] = "free"
    /\ summaries' = [summaries EXCEPT ![FreeTask] = "created"]
    /\ ready' = Append(Tail(ready), Callback("start", FreeTask, ""))
    /\ UNCHANGED <<is_summarizing, msgs_since_summary, summary_cache>>
    /\ UNCHANGED <<ragVars, last, pending, sharedVars, threadVars, voiceVars>>

\* _update_summary starts: the flag goes up, channel.history is awaited
RunStart ==
    /\ ready # <<>>
    /\ Head(ready).kind = "start"
    /\ is_summarizing' = TRUE
    /\ summaries' = [summaries EXCEPT ![Head(ready).task] = "history"]
    /\ ready' = Tail(ready)
    /\ UNCHANGED <<msgs_since_summary, summary_cache>>
    /\ UNCHANGED <<ragVars, last, pending, sharedVars, threadVars, voiceVars>>

\* Discord answers channel.history: more than 30 messages, 30 or fewer, or
\* the request raises
HistoryResponds(t, outcome) ==
    /\ summaries[t] = "history"
    /\ Len(ready) < MaxReady
    /\ summaries' = [summaries EXCEPT ![t] = "history_done"]
    /\ ready' = Append(ready, Callback("history", t, outcome))
    /\ UNCHANGED <<is_summarizing, msgs_since_summary, summary_cache>>
    /\ UNCHANGED <<ragVars, last, pending, sharedVars, threadVars, voiceVars>>

\* _update_summary resumes with the history: too little and an exception
\* end it with the flag down, else summarize_text is awaited
RunHistory ==
    /\ ready # <<>>
    /\ Head(ready).kind = "history"
    /\ IF Head(ready).outcome = "enough"
       THEN /\ summaries' = [summaries EXCEPT ![Head(ready).task] = "summarize"]
            /\ UNCHANGED is_summarizing
       ELSE /\ summaries' = [summaries EXCEPT ![Head(ready).task] = "free"]
            /\ is_summarizing' = FALSE
    /\ ready' = Tail(ready)
    /\ UNCHANGED <<msgs_since_summary, summary_cache>>
    /\ UNCHANGED <<ragVars, last, pending, sharedVars, threadVars, voiceVars>>

\* the summarizer answers: a summary, the empty string, or it raises
SummaryResponds(t, outcome) ==
    /\ summaries[t] = "summarize"
    /\ Len(ready) < MaxReady
    /\ summaries' = [summaries EXCEPT ![t] = "summarize_done"]
    /\ ready' = Append(ready, Callback("summary", t, outcome))
    /\ UNCHANGED <<is_summarizing, msgs_since_summary, summary_cache>>
    /\ UNCHANGED <<ragVars, last, pending, sharedVars, threadVars, voiceVars>>

\* _update_summary resumes with the summary, keeps it when it is not
\* empty, and ends with the flag down
RunSummary ==
    /\ ready # <<>>
    /\ Head(ready).kind = "summary"
    /\ summary_cache' = IF Head(ready).outcome = "summary" THEN "summary" ELSE summary_cache
    /\ is_summarizing' = FALSE
    /\ summaries' = [summaries EXCEPT ![Head(ready).task] = "free"]
    /\ ready' = Tail(ready)
    /\ UNCHANGED msgs_since_summary
    /\ UNCHANGED <<ragVars, last, pending, sharedVars, threadVars, voiceVars>>

NextSummary ==
    \/ MessageArrives
    \/ ReadyArrives
    \/ RunOnMessage
    \/ RunOnReady
    \/ RunStart
    \/ \E t \in Tasks, o \in {"enough", "few", "raises"} : HistoryResponds(t, o)
    \/ RunHistory
    \/ \E t \in Tasks, o \in {"summary", "", "raises"} : SummaryResponds(t, o)
    \/ RunSummary

SpecSummary == InitStore /\ [][NextSummary]_vars

(***************************************************************************)
(* SpecVoice: VoiceHandler (tools/voice_handler.py) for one guild the bot  *)
(* has joined.  Callbacks run in the event loop's order, each up to its    *)
(* next await; the TTS service, the audio player and the sleep timer       *)
(* answer when they answer.                                                *)
(***************************************************************************)
MaxClips == 3
Clips == 1..MaxClips

FreeProc == CHOOSE p \in Procs : processors[p] = "free" /\ \A q \in Procs : processors[q] = "free" => p <= q

\* speak_text up to await generate_tts; it returns at once when the bot is
\* in no voice channel
SpeakText(c) ==
    /\ c \notin speaking
    /\ \A i \in 1..Len(queued) : queued[i] # c
    /\ voice_client.connected
    /\ speaking' = speaking \cup {c}
    /\ UNCHANGED <<voice_queues, currently_playing, voice_client, processors, queued, played, ready>>
    /\ UNCHANGED <<ragVars, last, pending, sharedVars, threadVars, chatVars>>

\* the TTS service answers: the audio file is written, or the call fails
TTSResponds(c, outcome) ==
    /\ c \in speaking
    /\ Len(ready) < MaxReady
    /\ \A i \in 1..Len(ready) : ~(ready[i].kind = "speak" /\ ready[i].task = c)
    /\ ready' = Append(ready, Callback("speak", c, outcome))
    /\ UNCHANGED voiceVars
    /\ UNCHANGED <<ragVars, last, pending, sharedVars, threadVars, chatVars>>

\* speak_text resumes: a failed TTS returns; else the clip is appended and,
\* when currently_playing is false, a _process_queue task is created
RunSpeak ==
    /\ ready # <<>>
    /\ Head(ready).kind = "speak"
    /\ speaking' = speaking \ {Head(ready).task}
    /\ IF Head(ready).outcome = "failed"
       THEN /\ ready' = Tail(ready)
            /\ UNCHANGED <<voice_queues, queued, processors>>
       ELSE /\ voice_queues' = Append(voice_queues, Head(ready).task)
            /\ queued' = Append(queued, Head(ready).task)
            /\ IF currently_playing
               THEN /\ ready' = Tail(ready)
                    /\ UNCHANGED processors
               ELSE /\ \E p \in Procs : processors[p] = "free"
                    /\ processors' = [processors EXCEPT ![FreeProc] = "created"]
                    /\ ready' = Append(Tail(ready), Callback("process", FreeProc, ""))
    /\ UNCHANGED <<currently_playing, voice_client, played>>
    /\ UNCHANGED <<ragVars, last, pending, sharedVars, threadVars, chatVars>>

\* voice_client.play raises ClientException when the client is not
\* connected or is already playing
CanPlay == voice_client.connected /\ voice_client.playing = NoClip

\* the while loop of _process_queue from its top to the next await, run by
\* processor p: a clip whose play raises is dropped and the loop goes on;
\* an accepted clip is awaited; an empty queue ends the task with
\* currently_playing = False
RunLoop(p) ==
    IF voice_queues # <<>> /\ CanPlay
    THEN /\ voice_client' = [voice_client EXCEPT !.playing = Head(voice_queues), !.owner = p]
         /\ played' = Append(played, Head(voice_queues))
         /\ voice_queues' = Tail(voice_queues)
         /\ processors' = [processors EXCEPT ![p] = "waiting"]
         /\ UNCHANGED currently_playing
    ELSE /\ voice_queues' = <<>>
         /\ currently_playing' = FALSE
         /\ processors' = [processors EXCEPT ![p] = "free"]
         /\ UNCHANGED <<voice_client, played>>

\* _process_queue starts: without a voice client it returns, else it sets
\* currently_playing = True and enters the loop
RunProcess ==
    /\ ready # <<>>
    /\ Head(ready).kind = "process"
    /\ ready' = Tail(ready)
    /\ IF ~voice_client.connected
       THEN /\ processors' = [processors EXCEPT ![Head(ready).task] = "free"]
            /\ UNCHANGED <<voice_queues, currently_playing, voice_client, played>>
       ELSE IF voice_queues # <<>> /\ CanPlay
            THEN /\ currently_playing' = TRUE
                 /\ voice_client' = [voice_client EXCEPT !.playing = Head(voice_queues),
                                                         !.owner = Head(ready).task]
                 /\ played' = Append(played, Head(voice_queues))
                 /\ voice_queues' = Tail(voice_queues)
                 /\ processors' = [processors EXCEPT ![Head(ready).task] = "waiting"]
            ELSE RunLoop(Head(ready).task)
    /\ UNCHANGED <<speaking, queued>>
    /\ UNCHANGED <<ragVars, last, pending, sharedVars, threadVars, chatVars>>

\* the player finishes the clip: after_playback sets done_event
PlaybackEnds ==
    /\ voice_client.playing # NoClip
    /\ Len(ready) < MaxReady
    /\ voice_client' = [voice_client EXCEPT !.playing = NoClip, !.owner = 0]
    /\ processors' = [processors EXCEPT ![voice_client.owner] = "woken"]
    /\ ready' = Append(ready, Callback("resume", voice_client.owner, ""))
    /\ UNCHANGED <<voice_queues, currently_playing, speaking, queued, played>>
    /\ UNCHANGED <<ragVars, last, pending, sharedVars, threadVars, chatVars>>

\* _process_queue resumes after done_event.wait(): the file is removed and
\* asyncio.sleep(0.1) is awaited
RunResume ==
    /\ ready # <<>>
    /\ Head(ready).kind = "resume"
    /\ processors' = [processors EXCEPT ![Head(ready).task] = "sleeping"]
    /\ ready' = Tail(ready)
    /\ UNCHANGED <<voice_queues, currently_playing, voice_client, speaking, queued, played>>
    /\ UNCHANGED <<ragVars, last, pending, sharedVars, threadVars, chatVars>>

\* the 0.1 s are over
SleepEnds(p) ==
    /\ processors[p] = "sleeping"
    /\ Len(ready) < MaxReady
    /\ processors' = [processors EXCEPT ![p] = "slept"]
    /\ ready' = Append(ready, Callback("wake", p, ""))
    /\ UNCHANGED <<voice_queues, currently_playing, voice_client, speaking, queued, played>>
    /\ UNCHANGED <<ragVars, last, pending, sharedVars, threadVars, chatVars>>

\* _process_queue resumes after the sleep, at the top of the loop
RunWake ==
    /\ ready # <<>>
    /\ Head(ready).kind = "wake"
    /\ ready' = Tail(ready)
    /\ RunLoop(Head(ready).task)
    /\ UNCHANGED <<speaking, queued>>
    /\ UNCHANGED <<ragVars, last, pending, sharedVars, threadVars, chatVars>>

\* leave_voice_channel up to await disconnect(): the player is stopped
\* (after_playback sets done_event) and the connection closes
LeaveVoiceChannel ==
    /\ voice_client.connected
    /\ voice_client.leaving = "no"
    /\ Len(ready) < MaxReady
    /\ voice_client' = [connected |-> FALSE, playing |-> NoClip, owner |-> 0, leaving |-> "awaiting"]
    /\ IF voice_client.playing # NoClip
       THEN /\ processors' = [processors EXCEPT ![voice_client.owner] = "woken"]
            /\ ready' = Append(ready, Callback("resume", voice_client.owner, ""))
       ELSE UNCHANGED <<processors, ready>>
    /\ UNCHANGED <<voice_queues, currently_playing, speaking, queued, played>>
    /\ UNCHANGED <<ragVars, last, pending, sharedVars, threadVars, chatVars>>

\* the disconnect is done
DisconnectDone ==
    /\ voice_client.leaving = "awaiting"
    /\ Len(ready) < MaxReady
    /\ voice_client' = [voice_client EXCEPT !.leaving = "done"]
    /\ ready' = Append(ready, Callback("leave", 0, ""))
    /\ UNCHANGED <<voice_queues, currently_playing, processors, speaking, queued, played>>
    /\ UNCHANGED <<ragVars, last, pending, sharedVars, threadVars, chatVars>>

\* leave_voice_channel resumes: the queue is cleared and currently_playing
\* set to False
RunLeave ==
    /\ ready # <<>>
    /\ Head(ready).kind = "leave"
    /\ ready' = Tail(ready)
    /\ voice_queues' = <<>>
    /\ currently_playing' = FALSE
    /\ voice_client' = [voice_client EXCEPT !.leaving = "left"]
    /\ UNCHANGED <<processors, speaking, queued, played>>
    /\ UNCHANGED <<ragVars, last, pending, sharedVars, threadVars, chatVars>>

NextVoice ==
    \/ \E c \in Clips : SpeakText(c)
    \/ \E c \in Clips, o \in {"ok", "failed"} : TTSResponds(c, o)
    \/ RunSpeak
    \/ RunProcess
    \/ PlaybackEnds
    \/ RunResume
    \/ \E p \in Procs : SleepEnds(p)
    \/ RunWake
    \/ LeaveVoiceChannel
    \/ DisconnectDone
    \/ RunLeave

SpecVoice == InitStore /\ [][NextVoice]_vars

(***************************************************************************)
(* The claims.                                                             *)
(***************************************************************************)
LastRetrieve == last.op = "retrieve"
LastFormat   == last.op = "format"

\* what the retrieval that just returned worked on (a retrieval changes
\* neither the table nor the index)
QueryEmbeddingNow == get_query_embedding(last.clean, last.qembOk)
FoundNow ==
    Candidates(knowledge, BM25_INDEX, BM25_CORPUS, BM25_IDS, last.clean, QueryEmbeddingNow, last.threshold)
IdsOf(items) == {items[i].id : i \in 1..Len(items)}

NearDuplicate(r1, r2) ==
    /\ r1.knowledge_type = "user_fact"
    /\ r2.knowledge_type = "user_fact"
    /\ r1.metadata.user_id # None
    /\ r1.metadata.user_id = r2.metadata.user_id
    /\ r1.embedding # <<>>
    /\ r2.embedding # <<>>
    /\ ScoreGE(_cosine_similarity(r1.embedding, r2.embedding), Pct(SimilarityThreshold))

\* C1: a store_conversation call whose fact was embedded for the duplicate
\* check, while the table holds another user_fact of the same user with
\* cosine similarity at or above the threshold, returns no id: at most one
\* of the two is stored.
C1_NearDuplicateNotStored ==
    (/\ last.op = "store_conversation" /\ last.content # Null /\ last.dupEmbOk
     /\ \E i \in 1..Len(knowledge) :
           /\ knowledge[i].id # KnowledgeId("know", last.content, last.ts)
           /\ NearDuplicate(knowledge[i],
                            Row(Null, last.content, DocVector(last.content), "user_fact",
                                Null, Meta(None, last.user_id)))) =>
        last.result = Null

\* an item that the loaded re-ranker scores above zero and strictly above
\* every other stored item, in a store with other items
HighlyRelevant(id) ==
    /\ CROSS_ENCODER # None
    /\ Len(knowledge) >= 2
    /\ id \in Ids(knowledge)
    /\ Logit(CROSS_ENCODER, last.clean, RowOf(knowledge, id).content) > 0
    /\ \A i \in 1..Len(knowledge) :
          knowledge[i].id # id =>
             Logit(CROSS_ENCODER, last.clean, knowledge[i].content)
                < Logit(CROSS_ENCODER, last.clean, RowOf(knowledge, id).content)

\* C2 as stated: with limit = 1, the item with the unique highest positive
\* re-ranker score is the first element of the returned list.
C2_RelevantItemFirst ==
    (LastRetrieve /\ last.limit = 1) =>
        \A id \in Ids(knowledge) :
            HighlyRelevant(id) => (last.result # <<>> /\ last.result[1].id = id)

\* C2 amended: with limit = 1, a query vector, no internal error, and the
\* highly relevant item among the merged candidates, the returned list is
\* exactly that item.
C2_RelevantCandidateFirst ==
    (LastRetrieve /\ last.limit = 1 /\ last.qembOk) =>
        LET found == FoundNow
        IN  ~found.raised =>
               \A id \in IdsOf(found.cands) :
                   HighlyRelevant(id) => (Len(last.result) = 1 /\ last.result[1].id = id)

C2_Witness ==
    /\ LastRetrieve /\ last.limit = 1 /\ last.qembOk
    /\ Len(knowledge) >= 3
    /\ LET found == FoundNow
       IN  \E id \in IdsOf(found.cands) :
              /\ HighlyRelevant(id)
              /\ found.cands[1].id # id
              /\ last.result[1].id = id

\* C3: when the query embedding fails, the retrieval returns the empty
\* list, whatever the table and the keyword index hold.
C3_EmbeddingFailureGivesEmpty ==
    (LastRetrieve /\ ~last.qembOk) => last.result = <<>>

C3_Witness ==
    /\ LastRetrieve /\ ~last.qembOk
    /\ FoundNow.cands # <<>>
    /\ last.result = <<>>

\* C4: without a re-ranker, with limit >= 1 and a semantic candidate, the
\* result is not empty and is in non-increasing order of vector score.
C4_FallbackOrderedByVectorScore ==
    (/\ LastRetrieve /\ CROSS_ENCODER = None /\ last.limit >= 1
     /\ VectorSearch(knowledge, QueryEmbeddingNow, last.threshold) # <<>>) =>
        /\ last.result # <<>>
        /\ \A i, j \in 1..Len(last.result) :
              i < j => ScoreGE(last.result[i].vector_score, last.result[j].vector_score)

C4_Witness ==
    /\ LastRetrieve /\ CROSS_ENCODER = None /\ last.limit >= 2
    /\ Len(last.result) >= 2
    /\ ScoreGT(last.result[1].vector_score, last.result[2].vector_score)
    /\ FoundNow.cands[1].id # last.result[1].id

\* C5: between calls the keyword index covers exactly the rows of the
\* knowledge table.
C5_IndexCoversTable ==
    {BM25_IDS[i] : i \in 1..Len(BM25_IDS)} = Ids(knowledge)

\* C6: a store_knowledge call whose database write fails returns None and
\* leaves the table and the three parts of the keyword index as they were.
C6_FailedWriteChangesNothing ==
    [][(last'.op = "store_knowledge" /\ last'.embOk /\ ~last'.writeOk) =>
          /\ last'.result = Null
          /\ knowledge' = knowledge
          /\ BM25_INDEX' = BM25_INDEX
          /\ BM25_CORPUS' = BM25_CORPUS
          /\ BM25_IDS' = BM25_IDS]_vars

C6_Witness ==
    /\ last.op = "store_knowledge" /\ last.embOk /\ ~last.writeOk
    /\ last.result = Null
    /\ knowledge # <<>>
    /\ {BM25_IDS[i] : i \in 1..Len(BM25_IDS)} # Ids(knowledge)

\* C7: a retrieval never returns more than limit items, and returns none
\* for a limit of zero or below.
C7_NeverMoreThanLimit ==
    LastRetrieve => Len(last.result) <= (IF last.limit > 0 THEN last.limit ELSE 0)

\* C8: a retrieval with the empty query returns the empty list.
C8_EmptyQueryGivesEmpty ==
    (LastRetrieve /\ last.query = QueryEmpty) => last.result = <<>>

\* the lines of a text: the pieces between "\n" tokens
RECURSIVE SplitLines(_)
SplitLines(text) ==
    IF \A k \in 1..Len(text) : text[k] # "\n" THEN <<text>>
    ELSE LET k == CHOOSE n \in 1..Len(text) :
                     text[n] = "\n" /\ \A m \in 1..(n - 1) : text[m] # "\n"
         IN  <<SubSeq(text, 1, k - 1)>> \o SplitLines(SubSeq(text, k + 1, Len(text)))

HeaderLines(current_username) ==
    <<HeaderLine>> \o (IF current_username # None THEN <<InstructionLine(current_username)>> ELSE <<>>)

\* C9: the formatter returns the empty string for the empty list, with or
\* without a current username, and a non-empty block for any other list.
C9_EmptyListGivesEmptyString ==
    LastFormat => ((last.result = <<>>) <=> (last.knowledge = <<>>))

C9_Witness ==
    /\ LastFormat /\ last.knowledge = <<>> /\ last.current_username # None
    /\ last.result = <<>>

\* the line the claim gives an item: labeled for a user_fact, bare otherwise
LineAsClaimed(item) ==
    IF item.type = "user_fact"
    THEN <<"-", " ", "[", item.metadata.username, "]", " ">> \o item.content
    ELSE <<"-", " ">> \o item.content

\* C10 as stated: after the header lines the block has exactly one line per
\* item, in order, labeled with the username for every user_fact.
C10_OneLinePerItem ==
    (LastFormat /\ last.knowledge # <<>>) =>
        LET lines == SplitLines(last.result)
            h     == Len(HeaderLines(last.current_username))
        IN  /\ Len(lines) = h + Len(last.knowledge)
            /\ \A i \in 1..Len(last.knowledge) : lines[h + i] = LineAsClaimed(last.knowledge[i])

\* the entry of an item: labeled when it is a user_fact with a username
EntryOf(item) ==
    IF item.type = "user_fact" /\ item.metadata.username # None
    THEN <<"-", " ", "[", item.metadata.username, "]", " ">> \o item.content
    ELSE <<"-", " ">> \o item.content

RECURSIVE EntryLines(_)
EntryLines(items) ==
    IF items = <<>> THEN <<>>
    ELSE SplitLines(EntryOf(Head(items))) \o EntryLines(Tail(items))

\* C10 amended: after the header lines the block holds one entry per item,
\* in order, each as many lines as its content has; the entry is labeled
\* exactly when the item is a user_fact whose metadata has a username.
C10_OneEntryPerItem ==
    (LastFormat /\ last.knowledge # <<>>) =>
        SplitLines(last.result) = HeaderLines(last.current_username) \o EntryLines(last.knowledge)

C10_Witness ==
    /\ LastFormat /\ Len(last.knowledge) = 2
    /\ last.knowledge[1].type = "user_fact" /\ last.knowledge[1].metadata.username # None
    /\ last.knowledge[2].type = "search" /\ last.knowledge[2].content = Search1
    /\ Len(SplitLines(last.result)) = 4

LastConversation == last.op = "store_conversation"

\* C11: a store_conversation call whose utterance is only a greeting or a
\* short acknowledgment extracts no fact and returns None, whatever the
\* agent replied.
C11_GreetingYieldsNoFact ==
    (LastConversation /\ last.user_message \in Greetings) =>
        (last.content = Null /\ last.result = Null)

\* C12: when the extractor call fails (no key, the request raises, the
\* response has no text) the extractor gives None, store_conversation
\* returns None, and the table and the keyword index stay as they were.
C12_ExtractorFailureStoresNothing ==
    [][(last'.op = "store_conversation" /\ last'.reply \in LLMFailures) =>
          /\ last'.content = Null
          /\ last'.result = Null
          /\ knowledge' = knowledge
          /\ BM25_INDEX' = BM25_INDEX
          /\ BM25_CORPUS' = BM25_CORPUS
          /\ BM25_IDS' = BM25_IDS]_vars

C12_Witness ==
    /\ LastConversation /\ last.reply = LLMReply("no_text", <<>>)
    /\ ~SkipsShortExchange(last.user_message, last.gemgem_response)
    /\ last.dupEmbOk /\ last.embOk /\ last.writeOk
    /\ knowledge # <<>>
    /\ last.result = Null

LastStandardize == last.op = "standardize"

\* C13: the normalizer returns the query as it was, or the LLM's answer
\* (stripped, quotes removed) when that has at least 3 and at most twice
\* the query's characters; a longer or shorter answer, and a failed call,
\* give the query as it was.
C13_RewriteBoundedOrOriginal ==
    LastStandardize =>
        LET clean == RemoveQuotes(Strip(last.reply))
        IN  /\ \/ last.result = last.query
               \/ /\ last.reply # Null
                  /\ last.result = clean
                  /\ CharLen(last.result) >= 3
                  /\ CharLen(last.result) <= 2 * CharLen(last.query)
            /\ last.reply = Null => last.result = last.query
            /\ (last.reply # Null /\ CharLen(clean) > 2 * CharLen(last.query)) =>
                  last.result = last.query

C13_Witness ==
    /\ LastStandardize /\ last.reply # Null
    /\ last.result # last.query
    /\ last.result # last.reply
    /\ CharLen(last.result) = 2 * CharLen(last.query)

\* C14: a store_knowledge call that succeeds returns the id made of the
\* content and the creation time; the table then holds exactly one record
\* under that id, with that content; a call for content and time already
\* stored adds no record, and the same content at another time keeps its
\* own, distinct record.
C14_SameIdOneRecord ==
    [][(last'.op = "store_knowledge" /\ last'.result # Null) =>
          LET id == KnowledgeId("know", last'.content, last'.ts)
          IN  /\ last'.result = id
              /\ Cardinality({i \in 1..Len(knowledge') : knowledge'[i].id = id}) = 1
              /\ RowOf(knowledge', id).content = last'.content
              /\ id \in Ids(knowledge) =>
                     Ids(knowledge') = Ids(knowledge) /\ Len(knowledge') = Len(knowledge)
              /\ id \notin Ids(knowledge) =>
                     Ids(knowledge') = Ids(knowledge) \cup {id} /\ Len(knowledge') = Len(knowledge) + 1
              /\ \A ts2 \in StoreTimes \ {last'.ts} :
                     LET other == KnowledgeId("know", last'.content, ts2)
                     IN  /\ other # id
                         /\ other \in Ids(knowledge) => other \in Ids(knowledge')]_vars

C14_Witness ==
    /\ last.op = "store_knowledge" /\ last.replaced /\ last.result # Null
    /\ Cardinality({i \in 1..Len(knowledge) : knowledge[i].content = last.content}) = 2

\* C15: no call removes a stored item or changes its content, type,
\* source or metadata.
C15_StoredItemsImmutable ==
    [][\A i \in 1..Len(knowledge) :
          \E j \in 1..Len(knowledge') :
             /\ knowledge'[j].id = knowledge[i].id
             /\ knowledge'[j].content = knowledge[i].content
             /\ knowledge'[j].knowledge_type = knowledge[i].knowledge_type
             /\ knowledge'[j].source = knowledge[i].source
             /\ knowledge'[j].metadata = knowledge[i].metadata]_vars

\* C16: every user_fact in the table carries a username and a user id.
C16_UserFactsCarryOwner ==
    \A i \in 1..Len(knowledge) :
        knowledge[i].knowledge_type = "user_fact" =>
            (knowledge[i].metadata.username # None /\ knowledge[i].metadata.user_id # None)

\* a query word occurs in the content, case-folded as the index folds it
SharesToken(query, content) ==
    \E k \in 1..Len(LowerSplit(query)) :
        \E m \in 1..Len(LowerSplit(content)) : LowerSplit(query)[k] = LowerSplit(content)[m]

\* C17: an item whose embedding failed at write time is stored all the
\* same (without a vector); in a retrieval it is never a semantic candidate
\* and it is a candidate whenever a query word occurs in its content.
C17_UnembeddedItemKeywordOnly ==
    /\ (last.op \in {"store_knowledge", "store_drawing_knowledge"} /\ ~last.embOk /\ last.writeOk) =>
           \E i \in 1..Len(knowledge) :
              knowledge[i].content = last.content /\ knowledge[i].embedding = <<>>
    /\ (LastRetrieve /\ last.qembOk) =>
           \A i \in 1..Len(knowledge) :
              knowledge[i].embedding = <<>> =>
                 /\ knowledge[i].id \notin
                       IdsOf(VectorSearch(knowledge, QueryEmbeddingNow, last.threshold))
                 /\ SharesToken(last.clean, knowledge[i].content) =>
                       knowledge[i].id \in IdsOf(FoundNow.cands)

\* C20: with the re-ranker loaded, every returned item is a candidate the
\* re-ranker scored above zero, the list is in non-increasing order of
\* that score, no positive candidate left out scores above a returned one,
\* and a non-negative limit cuts the list only at its end.
C20_RerankScoreDecidesOrder ==
    (LastRetrieve /\ CROSS_ENCODER # None /\ last.qembOk) =>
        LET found    == FoundNow
            Score(c) == Logit(CROSS_ENCODER, last.clean, c.content)
            positive == {i \in 1..Len(found.cands) : Score(found.cands[i]) > 0}
            res      == last.result
        IN  ~found.raised =>
               /\ \A k \in 1..Len(res) :
                      /\ res[k].id \in IdsOf(found.cands)
                      /\ res[k].has_rerank
                      /\ res[k].rerank_score = Score(res[k])
                      /\ res[k].rerank_score > 0
               /\ \A k, m \in 1..Len(res) :
                      k < m => (res[k].rerank_score >= res[m].rerank_score /\ res[k].id # res[m].id)
               /\ \A i \in positive :
                      found.cands[i].id \notin IdsOf(res) =>
                         \A k \in 1..Len(res) : res[k].rerank_score >= Score(found.cands[i])
               /\ last.limit >= 0 =>
                      Len(res) = (IF last.limit < Cardinality(positive) THEN last.limit
                                  ELSE Cardinality(positive))

C20_Witness ==
    /\ LastRetrieve /\ CROSS_ENCODER # None /\ last.qembOk
    /\ Len(last.result) = 2
    /\ last.result[1].rerank_score > last.result[2].rerank_score
    /\ ScoreGT(last.result[2].vector_score, last.result[1].vector_score)
    /\ Len(FoundNow.cands) = 3

\* the window the file should hold: the latest MAX_HISTORY messages
LatestWindow ==
    IF Len(appended) > 100 THEN SubSeq(appended, Len(appended) - 100 + 1, Len(appended))
    ELSE appended

C18_EveryCallReturns ==
    (pending.op # "none") ~> (pending.op = "none")

\* the ids the keyword index scores above zero for the query of the
\* retrieval that just returned
LexicalIds ==
    IF BM25_INDEX = NoIndex THEN {}
    ELSE LET scores == get_scores(BM25_INDEX, LowerSplit(last.clean))
             top    == ArgsortTop(scores)
         IN  {BM25_IDS[top[k]] : k \in {m \in 1..Len(top) : scores[top[m]] > 0}}

SemanticNow == VectorSearch(knowledge, QueryEmbeddingNow, last.threshold)

\* C21: the candidates of a retrieval are the union by id of the semantic
\* and the lexical candidates, each id once; every candidate carries both
\* scores, a candidate of only one search carrying zero for the other.
C21_CandidatesCarryBothScores ==
    (LastRetrieve /\ last.qembOk) =>
        LET found == FoundNow
            cands == found.cands
        IN  ~found.raised =>
               /\ IdsOf(cands) = IdsOf(SemanticNow) \cup LexicalIds
               /\ \A i, j \in 1..Len(cands) : i # j => cands[i].id # cands[j].id
               /\ \A i \in 1..Len(cands) :
                     /\ cands[i].has_bm25
                     /\ cands[i].id \notin LexicalIds => cands[i].bm25_score = 0
                     /\ cands[i].id \notin IdsOf(SemanticNow) => cands[i].vector_score = ZeroScore

\* some stored row's cosine to the query vector of the retrieval that just
\* returned is at or above threshold - 0.15
ReachesFloor ==
    \E i \in 1..Len(knowledge) :
        /\ knowledge[i].embedding # <<>>
        /\ QueryEmbeddingNow # Null
        /\ ScoreGE(_cosine_similarity(QueryEmbeddingNow, knowledge[i].embedding),
                   Pct(last.threshold - FloorGap))

\* C22 as stated: when no stored item's cosine reaches the relaxed floor,
\* the retrieval returns the empty list; so does one on an empty table.
C22_NothingAtFloorGivesEmpty ==
    (LastRetrieve /\ ~ReachesFloor) => last.result = <<>>

\* C22 amended: when no stored item's cosine reaches the relaxed floor and
\* the keyword index scores no document above zero for the query, the
\* retrieval returns the empty list; so does one on an empty table.
C22_NoCandidateGivesEmpty ==
    /\ (LastRetrieve /\ ~ReachesFloor /\ LexicalIds = {}) => last.result = <<>>
    /\ (LastRetrieve /\ knowledge = <<>>) => last.result = <<>>

C22_Witness ==
    /\ LastRetrieve /\ last.qembOk /\ ~ReachesFloor /\ LexicalIds = {}
    /\ BM25_INDEX # NoIndex
    /\ \E i \in 1..Len(knowledge) : knowledge[i].embedding # <<>>
    /\ last.limit >= 1
    /\ last.result = <<>>

\* C23: _is_duplicate_fact reports a duplicate exactly when the candidate
\* was embedded and the table holds a user_fact of the given user whose
\* embedding has cosine similarity at or above the threshold to it.
C23_DuplicateIffSimilarUserFact ==
    (last.op = "is_duplicate_fact") =>
        (last.result <=>
            /\ last.embOk
            /\ \E i \in 1..Len(knowledge) :
                  /\ knowledge[i].knowledge_type = "user_fact"
                  /\ knowledge[i].metadata.user_id = last.user_id
                  /\ knowledge[i].embedding # <<>>
                  /\ ScoreGE(_cosine_similarity(DocVector(last.new_fact), knowledge[i].embedding),
                             Pct(SimilarityThreshold)))

\* C26: every returned item carries the knowledge_type and the metadata of
\* the stored row with its id, so a returned user_fact with a username is
\* rendered with its username label.
C26_ReturnedItemsKeepStoredType ==
    LastRetrieve =>
        \A k \in 1..Len(last.result) :
            LET item == last.result[k]
            IN  /\ item.id \in Ids(knowledge)
                /\ item.type = RowOf(knowledge, item.id).knowledge_type
                /\ item.metadata = RowOf(knowledge, item.id).metadata
                /\ (RowOf(knowledge, item.id).knowledge_type = "user_fact"
                    /\ RowOf(knowledge, item.id).metadata.username # None) =>
                       FormatItem(item) = <<"-", " ", "[", item.metadata.username, "]", " ">> \o item.content

\* both sides of the exchange of the store_conversation call in r are
\* below their minimum lengths once stripped
BothShort(r) ==
    /\ CharLen(Strip(r.user_message)) < 15
    /\ CharLen(Strip(r.gemgem_response)) < 50

\* C27: a store_conversation call for a short utterance and a short reply
\* returns None in the step it is made, without waiting for the extractor
\* or an embedding, and leaves the table and the keyword index as they were.
C27_ShortExchangeReturnsAtOnce ==
    [][(last' # last /\ last'.op = "store_conversation" /\ BothShort(last')) =>
          /\ last'.result = Null
          /\ pending = NoCall
          /\ pending' = NoCall
          /\ knowledge' = knowledge
          /\ BM25_INDEX' = BM25_INDEX
          /\ BM25_CORPUS' = BM25_CORPUS
          /\ BM25_IDS' = BM25_IDS]_vars

C27_Witness ==
    /\ LastConversation /\ BothShort(last)
    /\ last.result = Null
    /\ pending = NoCall
    /\ knowledge # <<>>
    /\ BM25_INDEX # NoIndex

\* the text holds a complete <think>...</think> block
HasThinkBlock(text) ==
    LET t == Glue(text)
    IN  \E i, j \in 1..Len(t) : i < j /\ t[i] = "<think>" /\ t[j] = "</think>"

\* C28: the extractor returns None or a text of at least 10 characters
\* that holds no <think>...</think> block and is not NONE in any letter
\* case; an answer that is empty, shorter than 10 characters or the
\* sentinel, before or after the blocks are removed, gives None.
C28_ExtractorResultClean ==
    (last.op = "extract") =>
        /\ \/ last.result = Null
           \/ /\ CharLen(last.result) >= 10
              /\ ~HasThinkBlock(last.result)
              /\ UpperText(last.result) # <<"NONE">>
        /\ last.reply.kind # "text" => last.result = Null
        /\ last.reply.kind = "text" =>
              LET raw      == Strip(last.reply.text)
                  stripped == Strip(RemoveThink(raw))
              IN  (\/ raw = <<>> \/ CharLen(raw) < 10 \/ UpperText(raw) = <<"NONE">>
                   \/ stripped = <<>> \/ CharLen(stripped) < 10 \/ UpperText(stripped) = <<"NONE">>) =>
                      last.result = Null

\* the index parts p.index, p.ids, p.corpus come from one rebuild over rows
\* of the table: equal lengths, and position i names one item in all three
FromOneRebuild(p) ==
    /\ Len(p.ids) = Len(p.corpus)
    /\ p.index # NoIndex => Len(p.index[1]) = Len(p.ids)
    /\ \A i \in 1..Len(p.ids) :
          /\ p.index # NoIndex => p.index[1][i] = LowerSplit(p.corpus[i])
          /\ p.ids[i] \in Ids(knowledge)
          /\ RowOf(knowledge, p.ids[i]).content = p.corpus[i]

\* C24: the three parts of the index a retrieval reads come from one
\* rebuild, whatever worker threads run beside it; and once every worker
\* has ended, the index is the one built from the table as it is.
C24_IndexPartsFromOneRebuild ==
    /\ reader.pc = "done" => FromOneRebuild(reader)
    /\ (\A w \in Workers : workers[w].pc = "idle") =>
          /\ FromOneRebuild([index |-> BM25_INDEX, ids |-> BM25_IDS, corpus |-> BM25_CORPUS])
          /\ Len(BM25_IDS) = Len(knowledge)
          /\ \A i \in 1..Len(knowledge) : BM25_IDS[i] = knowledge[i].id
          /\ knowledge # <<>> => BM25_INDEX # NoIndex

\* C25: whatever the interleaving of store_conversation calls, the table
\* never holds two user facts of one user whose embeddings have cosine
\* similarity at or above the duplicate threshold.
C25_NearDuplicatesNotBothPersisted ==
    \A i, j \in 1..Len(knowledge) :
        i # j => ~NearDuplicate(knowledge[i], knowledge[j])

\* an _update_summary coroutine has started and has not ended
InProgress(t) == summaries[t] \in {"history", "history_done", "summarize", "summarize_done"}

\* C29: at most one _update_summary is in progress, and is_summarizing is
\* true exactly while one is.
C29_OneSummaryAtATime ==
    /\ Cardinality({t \in Tasks : InProgress(t)}) <= 1
    /\ is_summarizing <=> \E t \in Tasks : InProgress(t)

\* a _process_queue task has started and has not ended
Active(p) == processors[p] \in {"waiting", "woken", "sleeping", "slept"}

\* C30: at most one _process_queue task is active; every clip appended to
\* the queue is still waiting in it or was played, once, and the clips
\* were played in the order they were appended; currently_playing is true
\* exactly while a processor is active.
C30_OneProcessorPlaysEachClipOnce ==
    /\ Cardinality({p \in Procs : Active(p)}) <= 1
    /\ \A i \in 1..Len(queued) :
          \/ \E k \in 1..Len(voice_queues) : voice_queues[k] = queued[i]
          \/ \E k \in 1..Len(played) : played[k] = queued[i]
    /\ \A k, m \in 1..Len(played) : k # m => played[k] # played[m]
    /\ \A k, m \in 1..Len(played) :
          k < m => \E i, j \in 1..Len(queued) : i < j /\ queued[i] = played[k] /\ queued[j] = played[m]
    /\ currently_playing <=> \E p \in Procs : Active(p)

====
